---- MODULE Spec2Model ----
(***************************************************************************)
(* Schema-to-model conversion and relation management of JamesDBBApi:      *)
(* SchemaConverter (src/utils/convert.ts) and the relation routes that     *)
(* call it (the _relations router).                                        *)
(***************************************************************************)
EXTENDS Integers, Sequences, FiniteSets, TLC

VARIABLES
    column,         \* the Column object handed to the Column Builder
    definition,     \* what getSequelizeType / buildColumnDefinition produced
    strict,         \* options.strictValidation of the SchemaConverter
    pc,             \* "idle" before the operation ran, "done" after
    schemas,        \* the batch of TableSchema objects of the request
    response,       \* what the operation answered
    modelRegistry,  \* SchemaConverter.modelRegistry of the call's converter
    models,         \* sequelize.models of the connection
    associations,   \* the associations attached to models, in order
    store,          \* RateLimiter.store: key -> {count, resetTime, firstRequest}
    now,            \* the clock Date.now() reads
    limit,          \* what the last checkLimit call answered
    windows,        \* history: per key, the calls answered under one resetTime
    live,           \* the live database: its tables and their foreign keys
    database,       \* the Database object: isConnected and models
    connection,     \* sequelize.models of its connection, with associations
    log,            \* the belongsTo / hasMany calls of the last autoAssociate
    described,      \* a column description returned by describeTable
    attribute,      \* the model attribute the introspector built from it
    databases,      \* DatabaseManager.databases: name -> Database object
    retryDatabases, \* DatabaseManager.retryDatabases, in insertion order
    objects,        \* the Database objects: config, isConnected, models
    retryTimer,     \* DatabaseManager.retryTimer is set
    timers,         \* the interval timers that are running
    configs,        \* the database names the configManager holds
    calls,          \* the manager calls suspended at an await
    up,             \* which database servers accept connections
    started,        \* the number of manager calls made so far
    removed,        \* history: names removed and not added or set since
    requests,       \* the create-with-relations calls in progress on one connection
    registrations   \* history: the calls in the order they ran establishRelations

converterVars == <<column, definition, strict, pc, schemas, response,
                   modelRegistry, models, associations>>

limiterVars == <<store, now, limit, windows>>

discoverVars == <<live, database, connection, log, described, attribute>>

managerVars == <<databases, retryDatabases, objects, retryTimer, timers,
                 configs, calls, up, started, removed>>

routeVars == <<requests, registrations>>

vars == <<converterVars, limiterVars, discoverVars, managerVars, routeVars>>

\* the objects a specification of the SchemaConverter leaves untouched
outsideConverter == <<limiterVars, discoverVars, managerVars, routeVars>>

\* the rate limiter as constructed: an empty store (auth.ts:252)
NoLimiter ==
    /\ store = <<>>
    /\ now = 0
    /\ limit = <<>>
    /\ windows = <<>>

\* a Database object as constructed (database.ts:12, 34), nothing introspected
NoDiscovery ==
    /\ live = <<>>
    /\ database = [isConnected |-> FALSE, models |-> <<>>]
    /\ connection = <<>>
    /\ log = <<>>
    /\ described = <<>>
    /\ attribute = <<>>

\* a DatabaseManager as constructed (database.ts:136, 192-193)
NoManager ==
    /\ databases = <<>>
    /\ retryDatabases = <<>>
    /\ objects = <<>>
    /\ retryTimer = FALSE
    /\ timers = 0
    /\ configs = {}
    /\ calls = <<>>
    /\ up = <<>>
    /\ started = 0
    /\ removed = {}

\* no create-with-relations call has arrived
NoRequests ==
    /\ requests = <<>>
    /\ registrations = <<>>

OutsideConverter == NoLimiter /\ NoDiscovery /\ NoManager /\ NoRequests

(***************************************************************************)
(* Optional properties.  A property of a JSON object that may be left out  *)
(* is a set: {} when it is omitted (undefined), {v} when it is given as v. *)
(***************************************************************************)
Omitted == {}

Some(v) == {v}

Value(opt) == CHOOSE v \in opt : TRUE

\* x || false for an optional boolean
OrFalse(opt) == TRUE \in opt

\* JavaScript truthiness of an optional number: undefined and 0 are falsy
TruthyNumber(opt) == \E n \in opt : n # 0

(***************************************************************************)
(* Strings whose letter case matters are sequences of characters.          *)
(***************************************************************************)
UpperToLower ==
    ("A" :> "a") @@ ("B" :> "b") @@ ("C" :> "c") @@ ("D" :> "d") @@
    ("E" :> "e") @@ ("F" :> "f") @@ ("G" :> "g") @@ ("H" :> "h") @@
    ("I" :> "i") @@ ("J" :> "j") @@ ("K" :> "k") @@ ("L" :> "l") @@
    ("M" :> "m") @@ ("N" :> "n") @@ ("O" :> "o") @@ ("P" :> "p") @@
    ("Q" :> "q") @@ ("R" :> "r") @@ ("S" :> "s") @@ ("T" :> "t") @@
    ("U" :> "u") @@ ("V" :> "v") @@ ("W" :> "w") @@ ("X" :> "x") @@
    ("Y" :> "y") @@ ("Z" :> "z")

\* String.prototype.toLowerCase
toLowerCase(s) ==
    [i \in DOMAIN s |-> IF s[i] \in DOMAIN UpperToLower THEN UpperToLower[s[i]] ELSE s[i]]

\* String.prototype.toUpperCase (used to enumerate inputs)
toUpperCase(s) ==
    [i \in DOMAIN s |->
        IF \E u \in DOMAIN UpperToLower : UpperToLower[u] = s[i]
        THEN CHOOSE u \in DOMAIN UpperToLower : UpperToLower[u] = s[i]
        ELSE s[i]]

\* first letter upper case, the rest as written (used to enumerate inputs)
Capitalised(s) ==
    [i \in DOMAIN s |-> IF i = 1 THEN toUpperCase(s)[i] ELSE s[i]]

(***************************************************************************)
(* Type Mapper                                                             *)
(***************************************************************************)
K_integer == <<"i","n","t","e","g","e","r">>
K_int == <<"i","n","t">>
K_smallint == <<"s","m","a","l","l","i","n","t">>
K_bigint == <<"b","i","g","i","n","t">>
K_float == <<"f","l","o","a","t">>
K_double == <<"d","o","u","b","l","e">>
K_decimal == <<"d","e","c","i","m","a","l">>
K_numeric == <<"n","u","m","e","r","i","c">>
K_real == <<"r","e","a","l">>
K_string == <<"s","t","r","i","n","g">>
K_varchar == <<"v","a","r","c","h","a","r">>
K_char == <<"c","h","a","r">>
K_text == <<"t","e","x","t">>
K_mediumtext == <<"m","e","d","i","u","m","t","e","x","t">>
K_longtext == <<"l","o","n","g","t","e","x","t">>
K_tinytext == <<"t","i","n","y","t","e","x","t">>
K_timestamp == <<"t","i","m","e","s","t","a","m","p">>
K_datetime == <<"d","a","t","e","t","i","m","e">>
K_date == <<"d","a","t","e">>
K_time == <<"t","i","m","e">>
K_boolean == <<"b","o","o","l","e","a","n">>
K_bool == <<"b","o","o","l">>
K_tinyint == <<"t","i","n","y","i","n","t">>
K_blob == <<"b","l","o","b">>
K_binary == <<"b","i","n","a","r","y">>
K_varbinary == <<"v","a","r","b","i","n","a","r","y">>
K_json == <<"j","s","o","n">>
K_jsonb == <<"j","s","o","n","b">>
K_uuid == <<"u","u","i","d">>
K_enum == <<"e","n","u","m">>
K_array == <<"a","r","r","a","y">>
K_geometry == <<"g","e","o","m","e","t","r","y">>
K_geography == <<"g","e","o","g","r","a","p","h","y">>
K_email == <<"e","m","a","i","l">>
K_url == <<"u","r","l">>
K_ip == <<"i","p">>
K_foo == <<"f","o","o">>
K_constructor == <<"c","o","n","s","t","r","u","c","t","o","r">>
K_proto == <<"_","_","p","r","o","t","o","_","_">>


\* a Sequelize DataTypes class, not parameterised
DataType(name) == [name |-> name, args |-> <<>>]

\* a DataTypes class called with arguments, e.g. DataTypes.STRING(255)
Parameterised(base, args) == [name |-> base.name, args |-> args]

typeMapping ==
    (K_integer :> DataType("INTEGER")) @@
    (K_int :> DataType("INTEGER")) @@
    (K_smallint :> DataType("SMALLINT")) @@
    (K_bigint :> DataType("BIGINT")) @@
    (K_float :> DataType("FLOAT")) @@
    (K_double :> DataType("DOUBLE")) @@
    (K_decimal :> DataType("DECIMAL")) @@
    (K_numeric :> DataType("DECIMAL")) @@
    (K_real :> DataType("REAL")) @@
    (K_string :> DataType("STRING")) @@
    (K_varchar :> DataType("STRING")) @@
    (K_char :> DataType("CHAR")) @@
    (K_text :> DataType("TEXT")) @@
    (K_mediumtext :> DataType("TEXT")) @@
    (K_longtext :> DataType("TEXT")) @@
    (K_tinytext :> Parameterised(DataType("STRING"), <<255>>)) @@
    (K_timestamp :> DataType("DATE")) @@
    (K_datetime :> DataType("DATE")) @@
    (K_date :> DataType("DATEONLY")) @@
    (K_time :> DataType("TIME")) @@
    (K_boolean :> DataType("BOOLEAN")) @@
    (K_bool :> DataType("BOOLEAN")) @@
    (K_tinyint :> DataType("BOOLEAN")) @@
    (K_blob :> DataType("BLOB")) @@
    (K_binary :> DataType("BLOB")) @@
    (K_varbinary :> DataType("BLOB")) @@
    (K_json :> DataType("JSON")) @@
    (K_jsonb :> DataType("JSONB")) @@
    (K_uuid :> DataType("UUID")) @@
    (K_enum :> DataType("ENUM")) @@
    (K_array :> DataType("ARRAY")) @@
    (K_geometry :> DataType("GEOMETRY")) @@
    (K_geography :> DataType("GEOGRAPHY"))

TypeKeys == DOMAIN typeMapping

\* all-lower-case property names every plain object inherits from Object.prototype
ObjectPrototypeKeys == {K_constructor, K_proto}

InheritedValue(key) ==
    IF key = K_constructor THEN DataType("Object") ELSE DataType("Object.prototype")

\* this.typeMapping[key]: a property read on a plain object; {} is undefined
typeMappingLookup(key) ==
    IF key \in DOMAIN typeMapping THEN Some(typeMapping[key])
    ELSE IF key \in ObjectPrototypeKeys THEN Some(InheritedValue(key))
    ELSE Omitted

(***************************************************************************)
(* Outcome of a call: it either returns a value or throws.                 *)
(***************************************************************************)
Returned(v) == [threw |-> FALSE, error |-> "", value |-> Some(v)]

Threw(err) == [threw |-> TRUE, error |-> err, value |-> Omitted]

UnsupportedType == "Unsupported column type"

\* getSequelizeType, the lookup and the strict/lenient fallback
baseTypeOf(col, strictValidation) ==
    LET baseType == typeMappingLookup(toLowerCase(col.type))
    IN  IF baseType = Omitted
        THEN IF strictValidation
             THEN Threw(UnsupportedType)
             ELSE Returned(DataType("STRING"))
        ELSE Returned(Value(baseType))

\* parameterise that passes the precision and drops the scale (the variant
\* C10 must tell from the code)
parameterise_PrecisionOnly(col, baseType) ==
    IF /\ TruthyNumber(col.length)
       /\ (baseType = DataType("STRING") \/ baseType = DataType("CHAR"))
    THEN Parameterised(baseType, <<Value(col.length)>>)
    ELSE IF TruthyNumber(col.precision) /\ baseType = DataType("DECIMAL")
    THEN Parameterised(baseType, <<Value(col.precision)>>)
    ELSE baseType

\* getSequelizeType, "Handle type with length/precision"
parameterise(col, baseType) ==
    IF /\ TruthyNumber(col.length)
       /\ (baseType = DataType("STRING") \/ baseType = DataType("CHAR"))
    THEN Parameterised(baseType, <<Value(col.length)>>)
    ELSE IF TruthyNumber(col.precision) /\ col.scale # Omitted
    THEN IF baseType = DataType("DECIMAL")
         THEN Parameterised(baseType, <<Value(col.precision), Value(col.scale)>>)
         ELSE baseType
    ELSE IF TruthyNumber(col.precision)
    THEN IF baseType = DataType("DECIMAL")
         THEN Parameterised(baseType, <<Value(col.precision)>>)
         ELSE baseType
    ELSE baseType

getSequelizeType(col, strictValidation) ==
    LET base == baseTypeOf(col, strictValidation)
    IN  IF base.threw THEN base
        ELSE Returned(parameterise(col, Value(base.value)))

(***************************************************************************)
(* Column Builder                                                          *)
(***************************************************************************)
\* validation rules: a function from rule name to "true", "false" or "custom"
EmptyRules == [k \in {} |-> "true"]

Put(rules, key, val) ==
    [k \in DOMAIN rules \cup {key} |-> IF k = key THEN val ELSE rules[k]]

\* allowNull written as column.nullable || false: a column is nullable only
\* when it says so (the variant C7 must tell from the code)
allowNull_OrFalse(col) == OrFalse(col.nullable)

\* allowNull that a primary key turns off (the variant C6 must tell from the code)
allowNull_UnlessPrimaryKey(col) ==
    col.nullable # Some(FALSE) /\ ~OrFalse(col.primary_key)

\* allowNull: column.nullable !== false
allowNull(col) == col.nullable # Some(FALSE)

\* the switch on column.type.toLowerCase(): the rule the type implies
impliedRule(col) ==
    LET t == toLowerCase(col.type)
    IN  IF t = K_email THEN Some("isEmail")
        ELSE IF t = K_url THEN Some("isUrl")
        ELSE IF t = K_ip THEN Some("isIP")
        ELSE Omitted

\* definition.validate after the explicit rules and the switch
mergeValidate(col) ==
    LET rules == IF col.validate # Omitted THEN Value(col.validate) ELSE EmptyRules
    IN  IF impliedRule(col) # Omitted
        THEN Put(rules, Value(impliedRule(col)), "true")
        ELSE rules

\* the column object after the call: definition.validate is column.validate
\* itself when the column carries rules, so the switch writes into it
columnAfterBuild(col) ==
    IF col.validate # Omitted
    THEN [col EXCEPT !.validate = Some(mergeValidate(col))]
    ELSE col

buildColumnDefinition(col, strictValidation) ==
    LET type == getSequelizeType(col, strictValidation)
    IN  IF type.threw THEN type
        ELSE Returned(
            [type          |-> IF impliedRule(col) # Omitted
                               THEN DataType("STRING")
                               ELSE Value(type.value),
             primaryKey    |-> OrFalse(col.primary_key),
             allowNull     |-> allowNull(col),
             unique        |-> OrFalse(col.unique),
             autoIncrement |-> OrFalse(col.auto_increment),
             validate      |-> mergeValidate(col)])

(***************************************************************************)
(* Inputs of the Type Mapper and the Column Builder                        *)
(***************************************************************************)
MaxLength == 2
MaxPrecision == 2
MaxScale == 1

OptionalBoolean == {Omitted, Some(TRUE), Some(FALSE)}

OptionalNumber(max) == {Omitted} \cup {Some(n) : n \in 0..max}

SemanticTypes == {K_email, K_url, K_ip}

InAnyCase(keys) ==
    keys \cup {toUpperCase(k) : k \in keys} \cup {Capitalised(k) : k \in keys}

TypeInputs ==
    InAnyCase(TypeKeys \cup SemanticTypes \cup {K_foo}) \cup ObjectPrototypeKeys

CoreTypeInputs ==
    InAnyCase({K_integer, K_decimal, K_string, K_email, K_url, K_ip, K_foo})

ValidateInputs ==
    {Omitted, Some(EmptyRules),
     Some([len |-> "custom"]),
     Some([isEmail |-> "false"]),
     Some([isEmail |-> "custom", len |-> "custom"]),
     Some([isUrl |-> "false"]),
     Some([isIP |-> "custom", notEmpty |-> "true"])}

Col(name, type) ==
    [name |-> name, type |-> type, primary_key |-> Omitted, nullable |-> Omitted,
     unique |-> Omitted, auto_increment |-> Omitted, length |-> Omitted,
     precision |-> Omitted, scale |-> Omitted, validate |-> Omitted]

\* every type name with every length, precision and scale; no flags
TypeSweep ==
    {[Col("c", t) EXCEPT !.length = l, !.precision = p, !.scale = s] :
        t \in TypeInputs, l \in {Omitted, Some(0), Some(MaxLength)},
        p \in OptionalNumber(MaxPrecision), s \in OptionalNumber(MaxScale)}

\* the main type names with every combination of flags and rules
FlagSweep ==
    {[Col("c", t) EXCEPT !.primary_key = pk, !.nullable = n, !.unique = u,
                         !.auto_increment = ai, !.validate = v, !.length = l] :
        t \in CoreTypeInputs, pk \in OptionalBoolean, n \in OptionalBoolean,
        u \in {Omitted, Some(TRUE)}, ai \in OptionalBoolean,
        v \in ValidateInputs, l \in {Omitted, Some(MaxLength)}}

ColumnInputs == TypeSweep \cup FlagSweep

NoBatch == <<>>

NoResponse == [op |-> "none", status |-> 0, threw |-> FALSE, error |-> "", errors |-> <<>>]

NoModels == <<>>

InitColumn ==
    /\ column \in ColumnInputs
    /\ strict \in BOOLEAN
    /\ definition = Returned("none")
    /\ pc = "idle"
    /\ schemas = NoBatch
    /\ response = NoResponse
    /\ modelRegistry = NoModels
    /\ models = NoModels
    /\ associations = <<>>
    /\ OutsideConverter

\* a call of getSequelizeType(column)
GetSequelizeType ==
    /\ pc = "idle"
    /\ definition' = getSequelizeType(column, strict)
    /\ pc' = "getSequelizeType"
    /\ UNCHANGED <<column, strict, schemas, response, modelRegistry, models, associations>>
    /\ UNCHANGED outsideConverter

\* a call of buildColumnDefinition(column)
BuildColumnDefinition ==
    /\ pc = "idle"
    /\ definition' = buildColumnDefinition(column, strict)
    /\ column' = IF definition'.threw THEN column ELSE columnAfterBuild(column)
    /\ pc' = "buildColumnDefinition"
    /\ UNCHANGED <<strict, schemas, response, modelRegistry, models, associations>>
    /\ UNCHANGED outsideConverter

NextColumn == GetSequelizeType \/ BuildColumnDefinition

SpecColumn == InitColumn /\ [][NextColumn]_vars

(***************************************************************************)
(* Table schemas and relations                                             *)
(***************************************************************************)
\* JavaScript truthiness of an optional string: undefined and "" are falsy
TruthyString(opt) == \E s \in opt : s # ""

Min(S) == CHOOSE n \in S : \A m \in S : n <= m

\* schemas.find that passes over the first schema of the batch (the variant
\* C12 must tell from the code)
findSchema_NotFirst(batch, name) ==
    LET hits == {i \in DOMAIN batch : i > 1 /\ batch[i].table_name = name}
    IN  IF hits = {} THEN Omitted ELSE Some(batch[Min(hits)])

\* schemas.find(s => s.table_name === name): the first schema of that name
findSchema(batch, name) ==
    LET hits == {i \in DOMAIN batch : batch[i].table_name = name}
    IN  IF hits = {} THEN Omitted ELSE Some(batch[Min(hits)])

\* findColumn: schema?.columns.find(col => col.name === colName)
findColumn(schemaOpt, colName) ==
    IF schemaOpt = Omitted THEN Omitted
    ELSE LET columns == Value(schemaOpt).columns
             hits == {i \in DOMAIN columns : columns[i].name = colName}
         IN  IF hits = {} THEN Omitted ELSE Some(columns[Min(hits)])

RECURSIVE Flatten(_)
Flatten(seqs) ==
    IF seqs = <<>> THEN <<>> ELSE Head(seqs) \o Flatten(Tail(seqs))

(***************************************************************************)
(* Relation Validator                                                     *)
(***************************************************************************)
\* one error string: its wording (kind) and the values it interpolates
Error(kind, table, index, names, types) ==
    [kind |-> kind, table |-> table, index |-> index, names |-> names, types |-> types]

\* check 2 without the error for a missing through property (the variant
\* C13 must tell from the code)
checkThrough_TableOnly(batch, schema, relation) ==
    IF relation.type # "belongsToMany" \/ ~TruthyString(relation.through) THEN <<>>
    ELSE IF findSchema(batch, Value(relation.through)) = Omitted
    THEN <<Error("references missing through table", schema.table_name,
                 Omitted, <<relation.target, Value(relation.through)>>, <<>>)>>
    ELSE <<>>

\* 2. belongsToMany: the through table and the keys on it
checkThrough(batch, schema, relation) ==
    IF relation.type # "belongsToMany" THEN <<>>
    ELSE IF ~TruthyString(relation.through)
    THEN <<Error("requires 'through' property", schema.table_name, Omitted,
                 <<relation.target>>, <<>>)>>
    ELSE LET through == Value(relation.through)
             throughSchema == findSchema(batch, through)
         IN  IF throughSchema = Omitted
             THEN <<Error("references missing through table", schema.table_name,
                          Omitted, <<relation.target, through>>, <<>>)>>
             ELSE (IF /\ TruthyString(relation.foreignKey)
                      /\ findColumn(throughSchema, Value(relation.foreignKey)) = Omitted
                   THEN <<Error("foreignKey not found in through table",
                                schema.table_name, Omitted,
                                <<Value(relation.foreignKey), through>>, <<>>)>>
                   ELSE <<>>)
                  \o
                  (IF /\ TruthyString(relation.targetKey)
                      /\ findColumn(throughSchema, Value(relation.targetKey)) = Omitted
                   THEN <<Error("targetKey not found in through table",
                                schema.table_name, Omitted,
                                <<Value(relation.targetKey), through>>, <<>>)>>
                   ELSE <<>>)

\* the foreign key looked for on the target table whatever the relation
\* type (the variant C14 must tell from the code)
fkSchemaOf_Target(schema, relation, targetSchema) ==
    IF relation.type \in {"belongsTo", "hasOne", "hasMany"} THEN targetSchema
    ELSE Omitted

\* the schema that must hold the foreign key, by relation type (check 3)
fkSchemaOf(schema, relation, targetSchema) ==
    IF relation.type = "belongsTo" THEN Some(schema)
    ELSE IF relation.type = "hasOne" \/ relation.type = "hasMany" THEN targetSchema
    ELSE Omitted

\* 3. the foreign key on the side the relation type names
checkForeignKey(schema, relation, targetSchema) ==
    IF ~TruthyString(relation.foreignKey) THEN <<>>
    ELSE LET fkSchema == fkSchemaOf(schema, relation, targetSchema)
         IN  IF fkSchema # Omitted
                /\ findColumn(fkSchema, Value(relation.foreignKey)) = Omitted
             THEN <<Error("Foreign key not found", schema.table_name, Omitted,
                          <<Value(relation.foreignKey), Value(fkSchema).table_name>>,
                          <<>>)>>
             ELSE <<>>

\* 4. the target key in the target table
checkTargetKey(schema, relation, targetSchema) ==
    IF /\ TruthyString(relation.targetKey)
       /\ findColumn(targetSchema, Value(relation.targetKey)) = Omitted
    THEN <<Error("Target key not found", schema.table_name, Omitted,
                 <<Value(relation.targetKey), relation.target>>, <<>>)>>
    ELSE <<>>

\* the schema whose column is compared with the target key (check 5)
fkSchemaForTypes(batch, schema, relation, targetSchema) ==
    IF relation.type = "belongsTo" THEN Some(schema)
    ELSE IF relation.type = "hasOne" \/ relation.type = "hasMany" THEN targetSchema
    ELSE IF relation.type = "belongsToMany" /\ TruthyString(relation.through)
    THEN findSchema(batch, Value(relation.through))
    ELSE Omitted

\* 5. the column types of foreignKey and targetKey
checkKeyTypes(batch, schema, relation, targetSchema) ==
    IF ~(TruthyString(relation.foreignKey) /\ TruthyString(relation.targetKey))
    THEN <<>>
    ELSE LET fkSchema == fkSchemaForTypes(batch, schema, relation, targetSchema)
             fkCol == findColumn(fkSchema, Value(relation.foreignKey))
             targetCol == findColumn(targetSchema, Value(relation.targetKey))
         IN  IF /\ fkCol # Omitted
                /\ targetCol # Omitted
                /\ Value(fkCol).type # Value(targetCol).type
             THEN <<Error("Type mismatch", schema.table_name, Omitted,
                          <<Value(relation.foreignKey), Value(relation.targetKey),
                            relation.target>>,
                          <<Value(fkCol).type, Value(targetCol).type>>)>>
             ELSE <<>>

\* validateRelation that stops at the first failing check of a relation
\* (the variant C4 must tell from the code)
validateRelation_FirstErrorOnly(batch, schema, relation, index) ==
    LET targetSchema == findSchema(batch, relation.target)
        all == checkThrough(batch, schema, relation)
               \o checkForeignKey(schema, relation, targetSchema)
               \o checkTargetKey(schema, relation, targetSchema)
               \o checkKeyTypes(batch, schema, relation, targetSchema)
    IN  IF targetSchema = Omitted
        THEN <<Error("references non-existent table", schema.table_name,
                     Some(index), <<relation.target>>, <<>>)>>
        ELSE IF all = <<>> THEN <<>> ELSE <<Head(all)>>

\* the callback of schema.relations.forEach in validateRelations
validateRelation(batch, schema, relation, index) ==
    LET targetSchema == findSchema(batch, relation.target)
    IN  IF targetSchema = Omitted
        THEN <<Error("references non-existent table", schema.table_name,
                     Some(index), <<relation.target>>, <<>>)>>
        ELSE checkThrough(batch, schema, relation)
             \o checkForeignKey(schema, relation, targetSchema)
             \o checkTargetKey(schema, relation, targetSchema)
             \o checkKeyTypes(batch, schema, relation, targetSchema)

\* validateRelations; relation indexes count from 0 as in the messages
validateRelations(batch) ==
    LET errors ==
            Flatten([i \in DOMAIN batch |->
                Flatten([j \in DOMAIN batch[i].relations |->
                    validateRelation(batch, batch[i], batch[i].relations[j], j - 1)])])
    IN  [valid |-> errors = <<>>, errors |-> errors]

(***************************************************************************)
(* Schema validation                                                       *)
(***************************************************************************)
SchemaError(kind, name) == [kind |-> kind, name |-> name]

\* validateColumn without the search for columns of the same name
\* (the variant C11 must tell from the code)
validateColumn_NoDuplicates(schema, col, index) ==
    (IF col.name = ""
     THEN <<SchemaError("name is required and must be a string", "")>>
     ELSE <<>>)
    \o (IF col.type = <<>>
        THEN <<SchemaError("type is required and must be a string", col.name)>>
        ELSE <<>>)

\* the callback of schema.columns.forEach in validateSchema
validateColumn(schema, col, index) ==
    (IF col.name = "" 
     THEN <<SchemaError("name is required and must be a string", "")>>
     ELSE <<>>)
    \o (IF col.type = <<>>
        THEN <<SchemaError("type is required and must be a string", col.name)>>
        ELSE <<>>)
    \o (IF Cardinality({i \in DOMAIN schema.columns :
                            schema.columns[i].name = col.name}) > 1
        THEN <<SchemaError("Duplicate column name", col.name)>>
        ELSE <<>>)

validateSchema(schema, strictValidation) ==
    LET errors ==
            (IF schema.table_name = ""
             THEN <<SchemaError("Table name is required and must be a string", "")>>
             ELSE <<>>)
            \o (IF schema.columns = <<>>
                THEN <<SchemaError("At least one column is required", "")>>
                ELSE (IF /\ ~\E i \in DOMAIN schema.columns :
                                 OrFalse(schema.columns[i].primary_key)
                         /\ strictValidation
                      THEN <<SchemaError("Table must have at least one primary key column", "")>>
                      ELSE <<>>)
                     \o Flatten([i \in DOMAIN schema.columns |->
                            validateColumn(schema, schema.columns[i], i - 1)]))
    IN  [valid |-> errors = <<>>, errors |-> errors]

(***************************************************************************)
(* Table Model Builder and Relation Graph Builder                          *)
(***************************************************************************)
\* the model sequelize.define returns: a new object for the table, here
\* named by its table and by the place in the batch of the schema it is from
Model(tableName, definedBy) == [tableName |-> tableName, definedBy |-> definedBy]

\* obj[key] = value on a dictionary
Assign(dict, key, value) ==
    [k \in DOMAIN dict \cup {key} |-> IF k = key THEN value ELSE dict[k]]

\* convertToSequelize: every column is built, then the model is defined
convertToSequelize(schema, definedBy, strictValidation) ==
    IF \E i \in DOMAIN schema.columns :
           buildColumnDefinition(schema.columns[i], strictValidation).threw
    THEN Threw(UnsupportedType)
    ELSE Returned(Model(schema.table_name, definedBy))

\* the state a call of establishRelations works on
Progress(registry, defined, attached) ==
    [threw |-> FALSE, error |-> "", registry |-> registry, models |-> defined,
     associations |-> attached]

Raise(st, err) == [st EXCEPT !.threw = TRUE, !.error = err]

\* convertToSequelizeWithRelations: define the model, then register it
convertToSequelizeWithRelations(st, schema, definedBy, strictValidation) ==
    LET model == convertToSequelize(schema, definedBy, strictValidation)
    IN  IF model.threw THEN Raise(st, model.error)
        ELSE [st EXCEPT !.models = Assign(@, schema.table_name, Value(model.value)),
                        !.registry = Assign(@, schema.table_name, Value(model.value))]

\* establishRelations, "First, create all models without relations"
RECURSIVE registerModels(_, _, _, _)
registerModels(st, batch, i, strictValidation) ==
    IF st.threw \/ i > Len(batch) THEN st
    ELSE registerModels(
            convertToSequelizeWithRelations(st, batch[i], i, strictValidation),
            batch, i + 1, strictValidation)

SourceNotFound == "Source model not found in registry"
TargetNotFound == "Target model not found in registry"
ThroughRequired == "belongsToMany relation requires 'through' table"
UnknownRelationType == "Unknown relation type"

\* x || fallback for an optional string
OrElse(opt, fallback) == IF TruthyString(opt) THEN Value(opt) ELSE fallback

associationOptions(relation) ==
    [foreignKey |-> relation.foreignKey,
     targetKey  |-> relation.targetKey,
     onDelete   |-> OrElse(relation.onDelete, "SET NULL"),
     onUpdate   |-> OrElse(relation.onUpdate, "CASCADE"),
     through    |-> IF relation.type = "belongsToMany" THEN relation.through ELSE Omitted]

\* sourceModel.hasOne / hasMany / belongsTo / belongsToMany (targetModel, options)
Attach(st, sourceModel, relation, targetModel) ==
    [st EXCEPT !.associations =
        Append(@, [source |-> sourceModel, type |-> relation.type,
                   target |-> targetModel, options |-> associationOptions(relation)])]

\* the relation callback that attaches a belongsToMany whether or not it has
\* a through table (the variant C19 must tell from the code)
createRelation_ThroughOptional(st, sourceModel, relation, strictValidation) ==
    IF relation.target \notin DOMAIN st.registry
    THEN IF strictValidation THEN Raise(st, TargetNotFound) ELSE st
    ELSE IF relation.type \in {"hasOne", "hasMany", "belongsTo", "belongsToMany"}
    THEN Attach(st, sourceModel, relation, st.registry[relation.target])
    ELSE IF strictValidation THEN Raise(st, UnknownRelationType) ELSE st

\* the relation callback that passes over a relation without a target model
\* in strict mode too (the variant C18 must tell from the code)
createRelation_SkipMissingTarget(st, sourceModel, relation, strictValidation) ==
    IF relation.target \notin DOMAIN st.registry
    THEN st
    ELSE LET targetModel == st.registry[relation.target]
         IN  IF relation.type \in {"hasOne", "hasMany", "belongsTo"}
             THEN Attach(st, sourceModel, relation, targetModel)
             ELSE IF relation.type = "belongsToMany"
             THEN IF ~TruthyString(relation.through)
                  THEN Raise(st, ThroughRequired)
                  ELSE Attach(st, sourceModel, relation, targetModel)
             ELSE IF strictValidation THEN Raise(st, UnknownRelationType) ELSE st

\* the relation callback that attaches a relation of an unknown type as a
\* hasMany in lenient mode (the variant C17 must tell from the code)
createRelation_UnknownAsHasMany(st, sourceModel, relation, strictValidation) ==
    IF relation.target \notin DOMAIN st.registry
    THEN IF strictValidation THEN Raise(st, TargetNotFound) ELSE st
    ELSE LET targetModel == st.registry[relation.target]
         IN  IF relation.type \in {"hasOne", "hasMany", "belongsTo"}
             THEN Attach(st, sourceModel, relation, targetModel)
             ELSE IF relation.type = "belongsToMany"
             THEN IF ~TruthyString(relation.through)
                  THEN Raise(st, ThroughRequired)
                  ELSE Attach(st, sourceModel, relation, targetModel)
             ELSE IF strictValidation THEN Raise(st, UnknownRelationType)
             ELSE Attach(st, sourceModel, [relation EXCEPT !.type = "hasMany"],
                         targetModel)

\* the callback of schema.relations.forEach in createRelations
createRelation(st, sourceModel, relation, strictValidation) ==
    IF relation.target \notin DOMAIN st.registry
    THEN IF strictValidation THEN Raise(st, TargetNotFound) ELSE st
    ELSE LET targetModel == st.registry[relation.target]
         IN  IF relation.type \in {"hasOne", "hasMany", "belongsTo"}
             THEN Attach(st, sourceModel, relation, targetModel)
             ELSE IF relation.type = "belongsToMany"
             THEN IF ~TruthyString(relation.through)
                  THEN Raise(st, ThroughRequired)
                  ELSE Attach(st, sourceModel, relation, targetModel)
             ELSE IF strictValidation THEN Raise(st, UnknownRelationType) ELSE st

RECURSIVE eachRelation(_, _, _, _, _)
eachRelation(st, sourceModel, relations, j, strictValidation) ==
    IF st.threw \/ j > Len(relations) THEN st
    ELSE eachRelation(
            createRelation(st, sourceModel, relations[j], strictValidation),
            sourceModel, relations, j + 1, strictValidation)

createRelations(st, schema, strictValidation) ==
    IF schema.table_name \notin DOMAIN st.registry
    THEN Raise(st, SourceNotFound)
    ELSE eachRelation(st, st.registry[schema.table_name], schema.relations, 1,
                      strictValidation)

\* establishRelations, "Then establish all relations"
RECURSIVE relateModels(_, _, _, _)
relateModels(st, batch, i, strictValidation) ==
    IF st.threw \/ i > Len(batch) THEN st
    ELSE relateModels(
            IF Len(batch[i].relations) > 0
            THEN createRelations(st, batch[i], strictValidation)
            ELSE st,
            batch, i + 1, strictValidation)

\* establishRelations that registers and relates one schema after the other
\* (the variant C16 must tell from the code)
RECURSIVE establishRelations_Interleaved(_, _, _)
establishRelations_Interleaved(st, batch, strictValidation) ==
    IF st.threw \/ batch = <<>> THEN st
    ELSE LET registered == convertToSequelizeWithRelations(
                               st, Head(batch), Cardinality(DOMAIN st.models) + 1,
                               strictValidation)
             related == IF registered.threw \/ Len(Head(batch).relations) = 0
                        THEN registered
                        ELSE createRelations(registered, Head(batch), strictValidation)
         IN  establishRelations_Interleaved(related, Tail(batch), strictValidation)

establishRelations(st, batch, strictValidation) ==
    relateModels(registerModels(st, batch, 1, strictValidation), batch, 1,
                 strictValidation)

(***************************************************************************)
(* The relation routes                                                     *)
(***************************************************************************)
\* the catch blocks: a message with 'not found' answers 404, any other 500
statusOfError(error) ==
    IF error \in {SourceNotFound, TargetNotFound} THEN 404 ELSE 500

Answer(op, status, threw, error, errors) ==
    [op |-> op, status |-> status, threw |-> threw, error |-> error, errors |-> errors]

\* the work of a route after its validation passed: establishRelations on a
\* new converter, whose registry starts empty
establishedBy(batch, strictValidation) ==
    establishRelations(Progress(NoModels, models, associations), batch,
                       strictValidation)

\* the first schema validateSchema rejects, if any
firstInvalidSchema(batch, strictValidation) ==
    LET hits == {i \in DOMAIN batch : ~validateSchema(batch[i], strictValidation).valid}
    IN  IF hits = {} THEN Omitted ELSE Some(batch[Min(hits)])

(***************************************************************************)
(* Requests                                                                *)
(***************************************************************************)
MaxRelations == 2

IdColumn == [Col("id", K_integer) EXCEPT !.primary_key = Some(TRUE),
                                         !.auto_increment = Some(TRUE)]

ColumnLists ==
    {<<IdColumn>>,
     <<IdColumn, Col("k", K_integer)>>,
     <<IdColumn, Col("k", toUpperCase(K_integer))>>,
     <<IdColumn, Col("k", K_int)>>,
     <<IdColumn, Col("k", K_string)>>,
     <<IdColumn, [Col("k", K_email) EXCEPT !.nullable = Some(FALSE)]>>,
     <<IdColumn, Col("k", K_foo)>>,
     <<Col("id", K_integer)>>}

Relation(type, target, foreignKey, targetKey, through) ==
    [type |-> type, target |-> target, foreignKey |-> foreignKey,
     targetKey |-> targetKey, through |-> through,
     onDelete |-> Omitted, onUpdate |-> Omitted]

RelationTypes == {"hasOne", "hasMany", "belongsTo", "belongsToMany"}

\* a relation of any type, one outside the four kinds included, to a table
\* of the batch or to a table that is in no batch ("z")
Relations ==
    {Relation(type, target, fk, tk, through) :
        type \in RelationTypes \cup {"manyToMany"},
        target \in {"a", "b", "z"},
        fk \in {Omitted, Some("k")},
        tk \in {Omitted, Some("id"), Some("k")},
        through \in {Omitted, Some("b"), Some("z")}}

FirstRelations ==
    {r \in Relations : r.type # "belongsToMany" => r.through = Omitted}

NextRelations ==
    {Relation("hasMany", "a", Omitted, Omitted, Omitted),
     Relation("manyToMany", "a", Omitted, Omitted, Omitted),
     Relation("belongsToMany", "z", Some("k"), Omitted, Omitted)}

RECURSIVE SeqsUpTo(_, _)
SeqsUpTo(S, n) ==
    IF n = 0 THEN {<<>>}
    ELSE LET shorter == SeqsUpTo(S, n - 1)
         IN  shorter \cup {Append(s, x) : s \in shorter, x \in S}

Schema(tableName, columns, relations) ==
    [table_name |-> tableName, columns |-> columns, relations |-> relations]

\* schema "a" carries up to MaxRelations relations, the first of any shape
SchemasA ==
    {Schema("a", cols, rels) :
        cols \in ColumnLists \ {<<Col("id", K_integer)>>},
        rels \in {<<>>} \cup {<<r>> \o more : r \in FirstRelations,
                              more \in SeqsUpTo(NextRelations, MaxRelations - 1)}}

SchemasB ==
    {Schema("b", cols, <<>>) :
        cols \in {<<IdColumn>>, <<IdColumn, Col("k", K_string)>>,
                  <<IdColumn, Col("k", K_foo)>>, <<Col("id", K_integer)>>}}
    \cup {Schema("b", <<IdColumn, Col("k", K_string)>>,
                 <<Relation("belongsTo", "a", Some("k"), Some("k"), Omitted)>>)}

Batches == {<<a>> : a \in SchemasA} \cup {<<a, b>> : a \in SchemasA, b \in SchemasB}

Init ==
    /\ schemas \in Batches
    /\ pc = "idle"
    /\ strict = TRUE
    /\ response = NoResponse
    /\ modelRegistry = NoModels
    /\ models = NoModels
    /\ associations = <<>>
    /\ column = Col("c", K_integer)
    /\ definition = Returned("none")
    /\ OutsideConverter

\* POST /api/_relations/validate
ValidateRoute ==
    /\ pc = "idle"
    /\ LET validation == validateRelations(schemas)
       IN  response' = Answer("validate", 200, FALSE, "", validation.errors)
    /\ pc' = "done"
    /\ UNCHANGED <<schemas, strict, modelRegistry, models, associations,
                   column, definition>>
    /\ UNCHANGED outsideConverter

\* POST /api/_relations/:database/establish
EstablishRoute ==
    /\ pc = "idle"
    /\ LET validation == validateRelations(schemas)
           est == establishedBy(schemas, TRUE)
       IN  IF ~validation.valid
           THEN /\ response' = Answer("establish", 400, FALSE,
                                      "Relations validation failed", validation.errors)
                /\ UNCHANGED <<modelRegistry, models, associations>>
           ELSE /\ response' = IF est.threw
                               THEN Answer("establish", statusOfError(est.error),
                                           TRUE, est.error, <<>>)
                               ELSE Answer("establish", 200, FALSE, "", <<>>)
                /\ modelRegistry' = est.registry
                /\ models' = est.models
                /\ associations' = est.associations
    /\ pc' = "done"
    /\ UNCHANGED <<schemas, strict, column, definition>>
    /\ UNCHANGED outsideConverter

\* POST /api/_relations/:database/create-with-relations; syncOk is whether
\* the database accepts sequelize.sync
CreateWithRelationsRoute(syncOk) ==
    /\ pc = "idle"
    /\ LET invalid == firstInvalidSchema(schemas, TRUE)
           validation == validateRelations(schemas)
           est == establishedBy(schemas, TRUE)
       IN  IF invalid # Omitted
           THEN /\ response' = Answer("create-with-relations", 400, FALSE,
                                      "Schema validation failed", <<>>)
                /\ UNCHANGED <<modelRegistry, models, associations>>
           ELSE IF ~validation.valid
           THEN /\ response' = Answer("create-with-relations", 400, FALSE,
                                      "Relations validation failed", validation.errors)
                /\ UNCHANGED <<modelRegistry, models, associations>>
           ELSE /\ response' =
                      IF est.threw
                      THEN Answer("create-with-relations", statusOfError(est.error),
                                  TRUE, est.error, <<>>)
                      ELSE IF ~syncOk
                      THEN Answer("create-with-relations", 500, TRUE,
                                  "sync failed", <<>>)
                      ELSE Answer("create-with-relations", 201, FALSE, "", <<>>)
                /\ modelRegistry' = est.registry
                /\ models' = est.models
                /\ associations' = est.associations
    /\ pc' = "done"
    /\ UNCHANGED <<schemas, strict, column, definition>>
    /\ UNCHANGED outsideConverter

Next ==
    \/ ValidateRoute
    \/ EstablishRoute
    \/ \E syncOk \in BOOLEAN : CreateWithRelationsRoute(syncOk)

Spec == Init /\ [][Next]_vars

(***************************************************************************)
(* The Table Model Builder called directly, and the schema route           *)
(***************************************************************************)
MaxColumns == 2

\* columns of a table schema: a key, a second column of the key's name, two
\* plain columns of one name (one of a type outside the table), a column
\* without a name and a column without a type
BuilderColumns ==
    {IdColumn, Col("id", K_string), Col("k", K_string), Col("k", K_foo),
     Col("", K_integer), Col("t", <<>>)}

BuilderSchemas ==
    {Schema(name, cols, <<>>) :
        name \in {"a", ""}, cols \in SeqsUpTo(BuilderColumns, MaxColumns)}

\* a second schema, of the same table or of another
OtherSchemas ==
    {Schema("a", <<IdColumn>>, <<>>),
     Schema("a", <<IdColumn, Col("k", K_string)>>, <<>>),
     Schema("b", <<IdColumn>>, <<>>)}

BuilderBatches ==
    {<<s>> : s \in BuilderSchemas}
    \cup {<<s, t>> : s \in BuilderSchemas, t \in OtherSchemas}

\* the converter is constructed and none of its methods has answered last,
\* or one of the methods below has
Callable ==
    pc \in {"idle", "validateSchema", "convertToSequelize",
            "convertToSequelizeWithRelations", "clearRegistry"}

\* what a call that returns no value leaves: undefined
Undefined == [threw |-> FALSE, error |-> "", value |-> Omitted]

InitBuilder ==
    /\ schemas \in BuilderBatches
    /\ strict \in BOOLEAN
    /\ pc = "idle"
    /\ response = NoResponse
    /\ modelRegistry = NoModels
    /\ models = NoModels
    /\ associations = <<>>
    /\ column = Col("c", K_integer)
    /\ definition = Undefined
    /\ OutsideConverter

\* converter.validateSchema(schemas[i])
ValidateSchema(i) ==
    /\ Callable
    /\ definition' = Returned(validateSchema(schemas[i], strict))
    /\ pc' = "validateSchema"
    /\ UNCHANGED <<schemas, strict, response, modelRegistry, models, associations,
                   column>>
    /\ UNCHANGED outsideConverter

\* converter.convertToSequelize(schemas[i], sequelize)
ConvertToSequelize(i) ==
    /\ Callable
    /\ definition' = convertToSequelize(schemas[i], i, strict)
    /\ models' = IF definition'.threw THEN models
                 ELSE Assign(models, schemas[i].table_name, Value(definition'.value))
    /\ pc' = "convertToSequelize"
    /\ UNCHANGED <<schemas, strict, response, modelRegistry, associations, column>>
    /\ UNCHANGED outsideConverter

\* converter.convertToSequelizeWithRelations(schemas[i], sequelize)
ConvertToSequelizeWithRelations(i) ==
    /\ Callable
    /\ LET st == convertToSequelizeWithRelations(
                    Progress(modelRegistry, models, associations),
                    schemas[i], i, strict)
       IN  /\ definition' = IF st.threw THEN Threw(st.error)
                            ELSE Returned(st.registry[schemas[i].table_name])
           /\ modelRegistry' = st.registry
           /\ models' = st.models
    /\ pc' = "convertToSequelizeWithRelations"
    /\ UNCHANGED <<schemas, strict, response, associations, column>>
    /\ UNCHANGED outsideConverter

\* converter.clearRegistry()
ClearRegistry ==
    /\ Callable
    /\ modelRegistry # NoModels
    /\ modelRegistry' = NoModels
    /\ definition' = Undefined
    /\ pc' = "clearRegistry"
    /\ UNCHANGED <<schemas, strict, response, models, associations, column>>
    /\ UNCHANGED outsideConverter

\* POST /api/_schema/:database/tables: the body is one schema; the route
\* makes a converter of its own, whose registry starts empty; syncOk is
\* whether the database accepts model.sync
CreateTableRoute(syncOk) ==
    /\ pc = "idle"
    /\ Len(schemas) = 1
    /\ LET schema == schemas[1]
           validation == validateSchema(schema, TRUE)
           model == convertToSequelize(schema, 1, TRUE)
       IN  IF ~validation.valid
           THEN /\ response' = Answer("tables", 400, FALSE,
                                      "Schema validation failed", validation.errors)
                /\ UNCHANGED models
           ELSE IF model.threw
           THEN /\ response' = Answer("tables", 500, TRUE, model.error, <<>>)
                /\ UNCHANGED models
           ELSE /\ response' = IF syncOk
                               THEN Answer("tables", 201, FALSE, "", <<>>)
                               ELSE Answer("tables", 500, TRUE, "sync failed", <<>>)
                /\ models' = Assign(models, schema.table_name, Value(model.value))
    /\ modelRegistry' = NoModels
    /\ pc' = "done"
    /\ UNCHANGED <<schemas, strict, associations, column, definition>>
    /\ UNCHANGED outsideConverter

NextBuilder ==
    \/ \E i \in DOMAIN schemas : ValidateSchema(i)
    \/ \E i \in DOMAIN schemas : ConvertToSequelize(i)
    \/ \E i \in DOMAIN schemas : ConvertToSequelizeWithRelations(i)
    \/ ClearRegistry
    \/ \E syncOk \in BOOLEAN : CreateTableRoute(syncOk)

SpecBuilder == InitBuilder /\ [][NextBuilder]_vars

(***************************************************************************)
(* The Relation Graph Builder called directly (the validator bypassed)     *)
(***************************************************************************)
\* a relation as establishRelations reads it: type, target and through
Edge(type, target, through) == Relation(type, target, Omitted, Omitted, through)

\* relations of every type, one outside the four kinds included, to a table
\* of the batch or to a table of no batch ("z"); a belongsToMany with and
\* without its through table
EstablishRelationInputs ==
    {Edge(type, target, Omitted) :
        type \in RelationTypes \cup {"manyToMany"}, target \in {"a", "b", "z"}}
    \cup {Edge("belongsToMany", target, Some("b")) : target \in {"a", "b", "z"}}

FollowingRelations ==
    {Edge("hasMany", "a", Omitted),
     Edge("hasOne", "b", Omitted),
     Edge("belongsTo", "z", Omitted),
     Edge("manyToMany", "a", Omitted),
     Edge("belongsToMany", "a", Omitted)}

\* schema "a" with up to MaxRelations relations
EstablishSchemasA ==
    {Schema("a", cols, rels) :
        cols \in {<<IdColumn>>, <<IdColumn, Col("k", K_foo)>>},
        rels \in {<<>>} \cup {<<r>> \o more : r \in EstablishRelationInputs,
                              more \in SeqsUpTo(FollowingRelations, MaxRelations - 1)}}

\* a second schema, of another table or of the same one
EstablishSchemasB ==
    {Schema(name, <<IdColumn>>, rels) :
        name \in {"a", "b"},
        rels \in {<<>>,
                  <<Edge("hasMany", "a", Omitted)>>,
                  <<Edge("belongsTo", "b", Omitted)>>,
                  <<Edge("manyToMany", "b", Omitted)>>,
                  <<Edge("belongsToMany", "a", Omitted)>>}}

\* one schema, or two in either order of declaration
EstablishBatches ==
    {<<a>> : a \in EstablishSchemasA}
    \cup {<<a, b>> : a \in EstablishSchemasA, b \in EstablishSchemasB}
    \cup {<<b, a>> : a \in EstablishSchemasA, b \in EstablishSchemasB}

InitEstablish ==
    /\ schemas \in EstablishBatches
    /\ strict \in BOOLEAN
    /\ pc = "idle"
    /\ response = NoResponse
    /\ modelRegistry = NoModels
    /\ models = NoModels
    /\ associations = <<>>
    /\ column = Col("c", K_integer)
    /\ definition = Undefined
    /\ OutsideConverter

\* converter.establishRelations(schemas, sequelize) on a new converter
EstablishRelations ==
    /\ pc = "idle"
    /\ LET est == establishRelations(Progress(modelRegistry, models, associations),
                                     schemas, strict)
       IN  /\ definition' = IF est.threw THEN Threw(est.error)
                            ELSE Returned(est.registry)
           /\ modelRegistry' = est.registry
           /\ models' = est.models
           /\ associations' = est.associations
    /\ pc' = "establishRelations"
    /\ UNCHANGED <<schemas, strict, response, column>>
    /\ UNCHANGED outsideConverter

\* converter.clearRegistry() after the call
ClearEstablished ==
    /\ pc = "establishRelations"
    /\ modelRegistry' = NoModels
    /\ definition' = Undefined
    /\ pc' = "clearRegistry"
    /\ UNCHANGED <<schemas, strict, response, models, associations, column>>
    /\ UNCHANGED outsideConverter

NextEstablish == EstablishRelations \/ ClearEstablished

SpecEstablish == InitEstablish /\ [][NextEstablish]_vars

(***************************************************************************)
(* Claims about the Type Mapper and the Column Builder (SpecColumn)        *)
(***************************************************************************)
Built == pc = "buildColumnDefinition"

Resolved == pc = "getSequelizeType"

Def == Value(definition.value)

IsSemantic(col) == toLowerCase(col.type) \in SemanticTypes

RuleOf(col) ==
    LET t == toLowerCase(col.type)
    IN  IF t = K_email THEN "isEmail" ELSE IF t = K_url THEN "isUrl" ELSE "isIP"

\* C5: a column of type email, url or ip (any letter case), in strict and in
\* lenient mode, builds to a definition of the string type with the matching
\* format validator attached; the build does not throw.
C5_SemanticTypesBuild ==
    (Built /\ IsSemantic(column)) =>
        /\ ~definition.threw
        /\ Def.type = DataType("STRING")
        /\ RuleOf(column) \in DOMAIN Def.validate

\* C5, lenient mode only: the part of the claim the code keeps.
C5_SemanticTypesBuildLenient ==
    (Built /\ IsSemantic(column) /\ ~strict) =>
        /\ ~definition.threw
        /\ Def.type = DataType("STRING")
        /\ RuleOf(column) \in DOMAIN Def.validate

IsIdColumn(col) ==
    /\ col.primary_key = Some(TRUE)
    /\ col.auto_increment = Some(TRUE)
    /\ col.nullable = Omitted

\* C6 as stated: a column with primary_key: true, auto_increment: true and
\* nullable omitted builds to a definition that is primary key,
\* auto-increment and not nullable.
C6_IdColumnNotNullable ==
    (Built /\ ~definition.threw /\ IsIdColumn(column)) =>
        Def.primaryKey /\ Def.autoIncrement /\ ~Def.allowNull

\* C6 amended: a column with primary_key: true, auto_increment: true and
\* nullable omitted builds to a definition that is primary key,
\* auto-increment and nullable (allowNull = true).
C6_IdColumnNullable ==
    (Built /\ ~definition.threw /\ IsIdColumn(column)) =>
        Def.primaryKey /\ Def.autoIncrement /\ Def.allowNull

C6_Witness ==
    /\ Built /\ strict /\ ~definition.threw
    /\ IsIdColumn(column) /\ column.type = K_integer
    /\ Def.primaryKey /\ Def.autoIncrement

\* C7: the built definition is nullable when nullable is omitted or true and
\* not nullable exactly when nullable is false, whatever the other flags are.
C7_NullabilityDefault ==
    (Built /\ ~definition.threw) =>
        /\ column.nullable \in {Omitted, Some(TRUE)} => Def.allowNull
        /\ column.nullable = Some(FALSE) => ~Def.allowNull

C7_Witness ==
    /\ Built /\ ~definition.threw
    /\ column.nullable = Some(FALSE) /\ column.primary_key = Some(TRUE)
    /\ column.unique = Some(TRUE) /\ ~Def.allowNull

\* C8: when a column of type email/url/ip carries an explicit validate rule
\* under the key of the type-implied rule, the built definition keeps the
\* explicit value for that key; every other explicit rule and the implied
\* rule are present.
C8_ExplicitRuleWins ==
    [][(pc = "idle" /\ pc' = "buildColumnDefinition" /\ ~definition'.threw
            /\ column.validate # Omitted)
        => LET explicit == Value(column.validate)
               built == Value(definition'.value).validate
           IN  /\ \A k \in DOMAIN explicit :
                      k \in DOMAIN built /\ built[k] = explicit[k]
               /\ IsSemantic(column) => RuleOf(column) \in DOMAIN built]_vars

\* C8, the part the code keeps: every explicit rule under another key than
\* the implied one keeps its value, and the implied rule is present.
C8_OtherRulesKept ==
    [][(pc = "idle" /\ pc' = "buildColumnDefinition" /\ ~definition'.threw
            /\ column.validate # Omitted)
        => LET explicit == Value(column.validate)
               built == Value(definition'.value).validate
           IN  /\ \A k \in DOMAIN explicit :
                      (IsSemantic(column) /\ k = RuleOf(column))
                      \/ (k \in DOMAIN built /\ built[k] = explicit[k])
               /\ IsSemantic(column) => RuleOf(column) \in DOMAIN built]_vars

\* C9: for every type name of the type table, in any letter case, resolve
\* returns the table's concrete type; for every type name not in the table,
\* strict mode fails with an unsupported-type error and lenient mode returns
\* the generic string type.
C9_TypeMapperResolve ==
    Resolved =>
        LET key == toLowerCase(column.type)
        IN  IF key \in TypeKeys
            THEN /\ ~definition.threw
                 /\ Def.name = typeMapping[key].name
            ELSE IF strict
            THEN definition.threw /\ definition.error = UnsupportedType
            ELSE ~definition.threw /\ Def.name = "STRING"

\* C9 for every type name but the property names a plain object inherits.
C9_ResolveNotInherited ==
    (Resolved /\ toLowerCase(column.type) \notin ObjectPrototypeKeys) =>
        LET key == toLowerCase(column.type)
        IN  IF key \in TypeKeys
            THEN /\ ~definition.threw
                 /\ Def.name = typeMapping[key].name
            ELSE IF strict
            THEN definition.threw /\ definition.error = UnsupportedType
            ELSE ~definition.threw /\ Def.name = "STRING"

IsDecimal(col) == toLowerCase(col.type) \in {K_decimal, K_numeric}

WithoutPrecision(col) == [col EXCEPT !.precision = Omitted, !.scale = Omitted]

\* C10 as stated: a decimal column's resolved type carries precision and
\* scale when both are given, precision alone when only precision is given;
\* precision and scale never alter the resolved type of a non-decimal column.
C10_DecimalGiven ==
    (Resolved /\ ~definition.threw) =>
        /\ (IsDecimal(column) /\ column.precision # Omitted /\ column.scale # Omitted)
            => Def.args = <<Value(column.precision), Value(column.scale)>>
        /\ (IsDecimal(column) /\ column.precision # Omitted /\ column.scale = Omitted)
            => Def.args = <<Value(column.precision)>>
        /\ ~IsDecimal(column)
            => definition = getSequelizeType(WithoutPrecision(column), strict)

\* C10 amended: the same for a precision that is given and not 0; a
\* precision of 0 counts as not given and leaves the decimal type bare.
C10_DecimalNonZero ==
    (Resolved /\ ~definition.threw) =>
        /\ (IsDecimal(column) /\ TruthyNumber(column.precision) /\ column.scale # Omitted)
            => Def.args = <<Value(column.precision), Value(column.scale)>>
        /\ (IsDecimal(column) /\ TruthyNumber(column.precision) /\ column.scale = Omitted)
            => Def.args = <<Value(column.precision)>>
        /\ (IsDecimal(column) /\ column.precision = Some(0))
            => Def = DataType("DECIMAL")
        /\ ~IsDecimal(column)
            => definition = getSequelizeType(WithoutPrecision(column), strict)

C10_Witness ==
    /\ Resolved /\ ~definition.threw
    /\ column.type = toUpperCase(K_decimal)
    /\ column.precision = Some(MaxPrecision) /\ column.scale = Some(0)
    /\ Def = [name |-> "DECIMAL", args |-> <<MaxPrecision, 0>>]

(***************************************************************************)
(* Claims about the relation routes (Spec)                                 *)
(***************************************************************************)
Done(op) == pc = "done" /\ response.op = op

Established == Done("establish") \/ Done("create-with-relations")

RelationPlaces ==
    UNION {{<<i, j>> : j \in DOMAIN schemas[i].relations} : i \in DOMAIN schemas}

\* the relation at place p is attached on a model of the registry
AttachedAt(p) ==
    LET s == schemas[p[1]]
        r == s.relations[p[2]]
    IN  \E k \in DOMAIN associations :
            /\ s.table_name \in DOMAIN modelRegistry
            /\ associations[k].source = modelRegistry[s.table_name]
            /\ associations[k].type = r.type
            /\ associations[k].target.tableName = r.target
            /\ associations[k].options.foreignKey = r.foreignKey

AllAttached ==
    /\ \A p \in RelationPlaces : AttachedAt(p)
    /\ Len(associations) = Cardinality(RelationPlaces)

\* C1: for every batch that validateRelations finds valid, establishRelations
\* (strict, as the routes call it) does not raise, and afterwards every
\* relation of the batch is attached on a model of the returned registry.
C1_RoundTrip ==
    (Done("establish") /\ validateRelations(schemas).valid) =>
        ~response.threw /\ AllAttached

SupportedBatch ==
    /\ \A i \in DOMAIN schemas : \A c \in DOMAIN schemas[i].columns :
           toLowerCase(schemas[i].columns[c].type) \in TypeKeys
    /\ \A p \in RelationPlaces :
           schemas[p[1]].relations[p[2]].type \in RelationTypes

\* C1 for the batches whose column types are all in the type table and
\* whose relation types are all among the four kinds.
C1_RoundTripSupported ==
    (Done("establish") /\ validateRelations(schemas).valid /\ SupportedBatch) =>
        ~response.threw /\ AllAttached

\* C2: in a create-with-relations or establish call no relation is attached
\* unless the whole batch passed validation, and the call ends with all
\* relations of the batch attached or with none.
C2_AllOrNothing ==
    Established =>
        /\ ~validateRelations(schemas).valid => associations = <<>>
        /\ associations = <<>> \/ AllAttached

\* C2, its last words: a failing call leaves no association attached.
C2_FailingCallLeavesNone ==
    (Established /\ response.status >= 400) => associations = <<>>

\* C2 for the batches whose relation types are all among the four kinds:
\* all relations are attached or none is.
C2_AllOrNothingKnownTypes ==
    (Established /\ \A p \in RelationPlaces :
                        schemas[p[1]].relations[p[2]].type \in RelationTypes) =>
        /\ ~validateRelations(schemas).valid => associations = <<>>
        /\ associations = <<>> \/ AllAttached

\* C3: when a column of the batch has an unsupported type, or a relation
\* fails validation, the call fails before any model of the batch is
\* defined or registered: the model registry is as it was before the call.
C3_ErrorsPrecedeMutation ==
    (Established /\ (response.error = UnsupportedType \/ response.status = 400)) =>
        /\ models = NoModels
        /\ modelRegistry = NoModels
        /\ associations = <<>>

\* C3 for the validators alone: a batch that validateSchema or
\* validateRelations rejects leaves the registry as it was.
C3_RejectedBatchLeavesRegistry ==
    (Established /\ response.status = 400) =>
        /\ models = NoModels
        /\ modelRegistry = NoModels
        /\ associations = <<>>

(***************************************************************************)
(* Claims about the Relation Validator (Spec)                              *)
(***************************************************************************)
InBatch(table) == \E i \in DOMAIN schemas : schemas[i].table_name = table

ColumnsOf(table) ==
    UNION {{schemas[i].columns[c] : c \in DOMAIN schemas[i].columns} :
              i \in {n \in DOMAIN schemas : schemas[n].table_name = table}}

HasColumn(table, name) == \E c \in ColumnsOf(table) : c.name = name

TypeOfColumn(table, name) == (CHOOSE c \in ColumnsOf(table) : c.name = name).type

\* check 1 violated: the target table is not in the batch
MissingTarget(s, r, index) ==
    IF ~InBatch(r.target)
    THEN {Error("references non-existent table", s.table_name, Some(index),
                <<r.target>>, <<>>)}
    ELSE {}

\* check 2 violated: a belongsToMany without through, with a through table
\* that is not in the batch, or with a key that is no column of it
BadThrough(s, r) ==
    IF r.type # "belongsToMany" THEN {}
    ELSE IF r.through = Omitted
    THEN {Error("requires 'through' property", s.table_name, Omitted,
                <<r.target>>, <<>>)}
    ELSE IF ~InBatch(Value(r.through))
    THEN {Error("references missing through table", s.table_name, Omitted,
                <<r.target, Value(r.through)>>, <<>>)}
    ELSE {Error("foreignKey not found in through table", s.table_name, Omitted,
                <<k, Value(r.through)>>, <<>>) :
             k \in {f \in r.foreignKey : ~HasColumn(Value(r.through), f)}}
         \cup
         {Error("targetKey not found in through table", s.table_name, Omitted,
                <<k, Value(r.through)>>, <<>>) :
             k \in {t \in r.targetKey : ~HasColumn(Value(r.through), t)}}

\* the table that must hold the foreign key: the source for belongsTo, the
\* target for hasOne and hasMany
ForeignKeySide(s, r) ==
    IF r.type = "belongsTo" THEN {s.table_name}
    ELSE IF r.type \in {"hasOne", "hasMany"} THEN {r.target}
    ELSE {}

\* check 3 violated: the foreign key is no column of the table on its side
BadForeignKey(s, r) ==
    UNION {{Error("Foreign key not found", s.table_name, Omitted, <<k, side>>, <<>>) :
               side \in {t \in ForeignKeySide(s, r) : InBatch(t) /\ ~HasColumn(t, k)}} :
           k \in r.foreignKey}

\* check 4 violated: the target key is no column of the target table
BadTargetKey(s, r) ==
    {Error("Target key not found", s.table_name, Omitted, <<k, r.target>>, <<>>) :
        k \in {t \in r.targetKey : InBatch(r.target) /\ ~HasColumn(r.target, t)}}

\* the table whose column is the foreign key when the key types are compared
TypeSide(s, r) ==
    IF r.type = "belongsToMany" THEN r.through ELSE ForeignKeySide(s, r)

\* check 5 violated: both keys are columns and their types differ
BadKeyTypes(s, r) ==
    UNION {{Error("Type mismatch", s.table_name, Omitted, <<k[1], k[2], r.target>>,
                  <<TypeOfColumn(side, k[1]), TypeOfColumn(r.target, k[2])>>) :
               side \in {t \in TypeSide(s, r) :
                            /\ InBatch(t) /\ InBatch(r.target)
                            /\ HasColumn(t, k[1]) /\ HasColumn(r.target, k[2])
                            /\ TypeOfColumn(t, k[1]) # TypeOfColumn(r.target, k[2])}} :
           k \in r.foreignKey \X r.targetKey}

\* every error the relation at place p owes, check by check
Violations(p) ==
    LET s == schemas[p[1]]
        r == s.relations[p[2]]
    IN  MissingTarget(s, r, p[2] - 1) \cup BadThrough(s, r) \cup BadForeignKey(s, r)
        \cup BadTargetKey(s, r) \cup BadKeyTypes(s, r)

\* the same, checks 2 to 5 counting only for a relation whose target exists
ViolationsReported(p) ==
    LET s == schemas[p[1]]
        r == s.relations[p[2]]
    IN  IF InBatch(r.target) THEN Violations(p) ELSE MissingTarget(s, r, p[2] - 1)

Reported == {response.errors[k] : k \in DOMAIN response.errors}

\* how many errors the relations at the places S owe together
RECURSIVE Owed(_)
Owed(S) ==
    IF S = {} THEN 0
    ELSE LET p == CHOOSE q \in S : TRUE
         IN  Cardinality(ViolationsReported(p)) + Owed(S \ {p})

DuplicatedNames(schema) ==
    {schema.columns[i].name : i \in
        {i \in DOMAIN schema.columns :
            \E j \in DOMAIN schema.columns :
                j # i /\ schema.columns[j].name = schema.columns[i].name}}

DuplicateErrors(result) ==
    {result.errors[k] : k \in
        {k \in DOMAIN result.errors : result.errors[k].kind = "Duplicate column name"}}

\* C11: validateSchema answers valid = false with an error naming the
\* duplicated column name for every schema in which two or more columns
\* share a name, reports no duplicate-name error when the column names are
\* pairwise distinct, and valid is true exactly when the error list is empty
C11_DuplicateColumnNames ==
    [][\A i \in DOMAIN schemas :
         (pc' = "validateSchema" /\ ValidateSchema(i)) =>
            LET result == Value(definition'.value)
                schema == schemas[i]
            IN  /\ \A n \in DuplicatedNames(schema) :
                      /\ ~result.valid
                      /\ SchemaError("Duplicate column name", n) \in DuplicateErrors(result)
                /\ \A e \in DuplicateErrors(result) : e.name \in DuplicatedNames(schema)
                /\ result.valid <=> result.errors = <<>>]_vars

\* validateSchema has answered with a duplicate-name error for "id" on a
\* schema that is otherwise in order
C11_Witness ==
    /\ pc = "validateSchema"
    /\ ~Value(definition.value).valid
    /\ Len(Value(definition.value).errors) = 2
    /\ DuplicateErrors(Value(definition.value)) = {SchemaError("Duplicate column name", "id")}


(***************************************************************************)
(* Claims about the Relation Validator, check by check (Spec)              *)
(***************************************************************************)
SchemaAt(p) == schemas[p[1]]

RelationAt(p) == schemas[p[1]].relations[p[2]]

\* the missing-target error of the relation at place p
MissingTargetError(p) ==
    Error("references non-existent table", SchemaAt(p).table_name, Some(p[2] - 1),
          <<RelationAt(p).target>>, <<>>)

\* C12: validateRelations answers valid = false with an error citing the
\* missing target for every relation whose target is no table of the batch,
\* and gives no missing-target error for a relation whose target is in the
\* batch, a table that targets itself included
C12_MissingTargetReported ==
    Done("validate") =>
        \A p \in RelationPlaces :
            IF InBatch(RelationAt(p).target)
            THEN MissingTargetError(p) \notin Reported
            ELSE /\ MissingTargetError(p) \in Reported
                 /\ ~validateRelations(schemas).valid
                 /\ response.errors # <<>>

\* validation has answered for a batch in which one relation targets its own
\* table and another a table that is not in the batch
C12_Witness ==
    /\ Done("validate")
    /\ \E p \in RelationPlaces :
           /\ RelationAt(p).target = SchemaAt(p).table_name
           /\ MissingTargetError(p) \notin Reported
    /\ \E p \in RelationPlaces :
           /\ ~InBatch(RelationAt(p).target)
           /\ MissingTargetError(p) \in Reported

ThroughRequiredError(p) ==
    Error("requires 'through' property", SchemaAt(p).table_name, Omitted,
          <<RelationAt(p).target>>, <<>>)

MissingThroughTableError(p) ==
    Error("references missing through table", SchemaAt(p).table_name, Omitted,
          <<RelationAt(p).target, Value(RelationAt(p).through)>>, <<>>)

\* the through errors owed by the belongsToMany relations at the places S
ThroughErrorsOwed(S) ==
    \A p \in S :
        RelationAt(p).type = "belongsToMany" =>
            IF RelationAt(p).through = Omitted
            THEN ThroughRequiredError(p) \in Reported
            ELSE ~InBatch(Value(RelationAt(p).through)) =>
                     MissingThroughTableError(p) \in Reported

KeySide(p) ==
    IF RelationAt(p).type = "belongsToMany" THEN RelationAt(p).through
    ELSE ForeignKeySide(SchemaAt(p), RelationAt(p))

\* the missing-foreign-key error of the relation at place p for the key k
\* looked for on the table side
ForeignKeyError(p, k, side) ==
    IF RelationAt(p).type = "belongsToMany"
    THEN Error("foreignKey not found in through table", SchemaAt(p).table_name,
               Omitted, <<k, side>>, <<>>)
    ELSE Error("Foreign key not found", SchemaAt(p).table_name, Omitted,
               <<k, side>>, <<>>)

\* C14: for every relation with a foreignKey whose target (and through)
\* tables are in the batch, a missing-foreign-key error is reported if and
\* only if the column is absent from the source table for belongsTo, from
\* the target table for hasOne and hasMany, from the through table for
\* belongsToMany
C14_ForeignKeySide ==
    Done("validate") =>
        \A p \in RelationPlaces :
            \A k \in RelationAt(p).foreignKey :
                \A side \in KeySide(p) :
                    (/\ RelationAt(p).type \in RelationTypes
                     /\ InBatch(RelationAt(p).target)
                     /\ InBatch(side)) =>
                        (ForeignKeyError(p, k, side) \in Reported
                            <=> ~HasColumn(side, k))

\* validation has answered for a belongsTo relation whose foreign key is a
\* column of the target but not of the source, and the error is reported
C14_Witness ==
    /\ Done("validate")
    /\ \E p \in RelationPlaces :
           /\ RelationAt(p).type = "belongsTo"
           /\ RelationAt(p).target # SchemaAt(p).table_name
           /\ \E k \in RelationAt(p).foreignKey :
                  /\ HasColumn(RelationAt(p).target, k)
                  /\ ~HasColumn(SchemaAt(p).table_name, k)
                  /\ ForeignKeyError(p, k, SchemaAt(p).table_name) \in Reported

\* the name of the logical type as the Type Mapper resolves it
LogicalType(type) == typeMappingLookup(toLowerCase(type))

TypeMismatchError(p, fk, tk, side) ==
    Error("Type mismatch", SchemaAt(p).table_name, Omitted,
          <<fk, tk, RelationAt(p).target>>,
          <<TypeOfColumn(side, fk), TypeOfColumn(RelationAt(p).target, tk)>>)

\* the relations whose foreignKey and targetKey both resolve to columns:
\* place, foreign key, target key and the table of the foreign key
ResolvedKeys ==
    {x \in UNION {{<<p, k[1], k[2], side>> :
                      k \in RelationAt(p).foreignKey \X RelationAt(p).targetKey,
                      side \in KeySide(p)} : p \in RelationPlaces} :
        /\ InBatch(RelationAt(x[1]).target)
        /\ InBatch(x[4])
        /\ HasColumn(x[4], x[2])
        /\ HasColumn(RelationAt(x[1]).target, x[3])}

\* C15 as stated: for every relation whose foreignKey and targetKey both
\* resolve to columns, a type-mismatch error is reported if and only if the
\* logical types of the two columns differ, compared as the Type Mapper
\* resolves them (in any letter case)
C15_KeyTypeCompatibility ==
    Done("validate") =>
        \A x \in ResolvedKeys :
            TypeMismatchError(x[1], x[2], x[3], x[4]) \in Reported
                <=> LogicalType(TypeOfColumn(x[4], x[2]))
                        # LogicalType(TypeOfColumn(RelationAt(x[1]).target, x[3]))

\* what the validator does: the error is reported if and only if the two
\* type names differ as written
C15_KeyTypeNamesCompared ==
    Done("validate") =>
        \A x \in ResolvedKeys :
            TypeMismatchError(x[1], x[2], x[3], x[4]) \in Reported
                <=> TypeOfColumn(x[4], x[2])
                        # TypeOfColumn(RelationAt(x[1]).target, x[3])


(***************************************************************************)
(* Claims about the Relation Graph Builder (SpecEstablish)                 *)
(***************************************************************************)
EstablishedDirectly == pc = "establishRelations"

\* establishRelations of a batch on a new converter and an empty connection
Fresh(batch) == establishRelations(Progress(NoModels, NoModels, <<>>), batch, strict)

TableNames(batch) == {batch[i].table_name : i \in DOMAIN batch}

\* an association without the identity of its models: source table, type,
\* target table and options
Link(association) ==
    <<association.source.tableName, association.type,
      association.target.tableName, association.options>>

\* the links a sequence of associations holds, each with how often
Links(attached) ==
    {<<Link(attached[k]),
       Cardinality({n \in DOMAIN attached : Link(attached[n]) = Link(attached[k])})>> :
        k \in DOMAIN attached}

\* the batch in another order of declaration
Reordered(batch, f) == [i \in DOMAIN batch |-> batch[f[i]]]

\* the relation at place p is one establishRelations attaches when it comes
\* to it: a known type, a target in the batch, a through for belongsToMany
Attachable(p) ==
    /\ RelationAt(p).type \in RelationTypes
    /\ RelationAt(p).target \in TableNames(schemas)
    /\ RelationAt(p).type = "belongsToMany" => RelationAt(p).through # Omitted

LinkAt(p) ==
    <<SchemaAt(p).table_name, RelationAt(p).type, RelationAt(p).target,
      associationOptions(RelationAt(p))>>

IsAttached(p) == \E k \in DOMAIN associations : Link(associations[k]) = LinkAt(p)

\* C16 as stated: every model is registered before any relation is
\* attached, so every order of declaration of the same batch attaches the
\* same set of relations; a relation whose target is declared later and a
\* relation of a table to itself are attached
C16_OrderIndependence ==
    EstablishedDirectly =>
        /\ \A f \in Permutations(DOMAIN schemas) :
               Links(Fresh(Reordered(schemas, f)).associations) = Links(associations)
        /\ \A p \in RelationPlaces : Attachable(p) => IsAttached(p)

\* C16 amended: the call raises in every order of declaration or in none;
\* when it does not raise, every order attaches the same relations, every
\* association joins the models the registry holds after phase one, and the
\* relations to a table declared later and to the table itself are attached
C16_OrderIndependenceWithoutRaise ==
    EstablishedDirectly =>
        /\ \A f \in Permutations(DOMAIN schemas) :
               /\ Fresh(Reordered(schemas, f)).threw = definition.threw
               /\ ~definition.threw =>
                      Links(Fresh(Reordered(schemas, f)).associations)
                          = Links(associations)
        /\ ~definition.threw =>
               /\ \A p \in RelationPlaces : Attachable(p) => IsAttached(p)
               /\ DOMAIN modelRegistry = TableNames(schemas)
               /\ \A k \in DOMAIN associations :
                      /\ associations[k].source
                             = modelRegistry[associations[k].source.tableName]
                      /\ associations[k].target
                             = modelRegistry[associations[k].target.tableName]

\* the call has returned for a batch of two tables in which the first
\* declares a relation to the second and a relation to itself, both attached
C16_Witness ==
    /\ EstablishedDirectly
    /\ ~definition.threw
    /\ Len(schemas) = 2
    /\ schemas[1].table_name # schemas[2].table_name
    /\ \E j \in DOMAIN schemas[1].relations :
           /\ schemas[1].relations[j].target = schemas[2].table_name
           /\ IsAttached(<<1, j>>)
    /\ \E j \in DOMAIN schemas[1].relations :
           /\ schemas[1].relations[j].target = schemas[1].table_name
           /\ IsAttached(<<1, j>>)


\* the batch with the relations before place p only: what establishRelations
\* has gone through when it comes to the relation at p
Before(batch, p) ==
    [i \in DOMAIN batch |->
        [batch[i] EXCEPT !.relations =
            IF i < p[1] THEN @
            ELSE IF i = p[1] THEN SubSeq(@, 1, p[2] - 1)
            ELSE <<>>]]

\* establishRelations comes to the relation at p: nothing before it raised
Met(p) == ~Fresh(Before(schemas, p)).threw

\* the batch without the relation at place p
Without(batch, p) ==
    [batch EXCEPT ![p[1]].relations =
        SubSeq(@, 1, p[2] - 1) \o SubSeq(@, p[2] + 1, Len(@))]

\* the call went as it goes for the batch without the relation at p: the
\* same associations, the same registry, the same error if any
Skipped(p) ==
    LET without == Fresh(Without(schemas, p))
    IN  /\ without.threw = definition.threw
        /\ without.error = definition.error
        /\ without.associations = associations
        /\ without.registry = modelRegistry

UnknownType(p) == RelationAt(p).type \notin RelationTypes

TargetRegistered(p) == RelationAt(p).target \in TableNames(schemas)

PhaseOne == registerModels(Progress(NoModels, NoModels, <<>>), schemas, 1, strict)

WithoutThrough(p) ==
    RelationAt(p).type = "belongsToMany" /\ ~TruthyString(RelationAt(p).through)

\* no belongsToMany association is attached without a through table
NoneAttachedWithoutThrough ==
    \A k \in DOMAIN associations :
        associations[k].type = "belongsToMany" =>
            TruthyString(associations[k].options.through)

Registers(name, model) ==
    /\ DOMAIN modelRegistry' = DOMAIN modelRegistry \cup {name}
    /\ modelRegistry'[name] = model
    /\ \A other \in DOMAIN modelRegistry \ {name} :
           modelRegistry'[other] = modelRegistry[other]

\* C20 as stated: after the Table Model Builder has built a schema, by
\* convertToSequelize (as the schema route calls it) or by
\* convertToSequelizeWithRelations, the registry maps table_name to the new
\* model, replacing an earlier entry, and every other entry is unchanged
C20_LastWriteWins ==
    [][/\ \A i \in DOMAIN schemas :
              (/\ pc' = "convertToSequelize"
               /\ ConvertToSequelize(i)
               /\ ~definition'.threw) =>
                  Registers(schemas[i].table_name, Value(definition'.value))
       /\ \A i \in DOMAIN schemas :
              (/\ pc' = "convertToSequelizeWithRelations"
               /\ ConvertToSequelizeWithRelations(i)
               /\ ~definition'.threw) =>
                  Registers(schemas[i].table_name, Value(definition'.value))
       /\ \A syncOk \in BOOLEAN :
              (/\ pc' = "done"
               /\ CreateTableRoute(syncOk)
               /\ response'.status = 201) =>
                  Registers(schemas[1].table_name, models'[schemas[1].table_name])
      ]_vars

\* the part of C20 that holds: convertToSequelizeWithRelations registers the
\* new model under table_name, last write wins, other entries unchanged, and
\* the model is the one the connection holds under that name
C20_LastWriteWinsWithRelations ==
    [][\A i \in DOMAIN schemas :
           (/\ pc' = "convertToSequelizeWithRelations"
            /\ ConvertToSequelizeWithRelations(i)
            /\ ~definition'.threw) =>
               /\ Registers(schemas[i].table_name, Value(definition'.value))
               /\ Value(definition'.value) = Model(schemas[i].table_name, i)
               /\ models'[schemas[i].table_name] = Value(definition'.value)
      ]_vars


(***************************************************************************)
(* The rate limiter (src/middlewares/auth.ts).  Times are clock ticks.     *)
(***************************************************************************)
WindowMs == 2

MaxRequests == 2

\* the clock stops at MaxTime, and a window counts at most MaxCount calls
MaxTime == 5

MaxCount == 4

\* the keys getKey(c) yields for the requests
Keys == {"ip:a", "user:1"}

\* the limits the limiters of auth.ts are built with: positive numbers
Limits == 1..MaxRequests

NoWindow == [resetTime |-> 0, calls |-> 0, allowed |-> 0]

\* store[key] of a plain object: the entry, or nothing (undefined)
Entry(st, key) == IF key \in DOMAIN st THEN {st[key]} ELSE {}

checkLimit_CountsFromZero(st, key, t, maxRequests) ==
    LET entry == Entry(st, key)
        fresh == [count |-> 1, resetTime |-> t + WindowMs, firstRequest |-> t]
    IN  IF entry = {} \/ t >= Value(entry).resetTime
        THEN [store |-> Assign(st, key, fresh),
              result |-> [key |-> key, allowed |-> TRUE,
                          remaining |-> maxRequests - 1,
                          resetTime |-> fresh.resetTime]]
        ELSE LET count == Value(entry).count + 1
             IN  [store |-> Assign(st, key, [Value(entry) EXCEPT !.count = count]),
                  result |-> [key |-> key, allowed |-> count <= maxRequests + 1,
                              remaining |-> IF maxRequests - count > 0
                                            THEN maxRequests - count ELSE 0,
                              resetTime |-> Value(entry).resetTime]]

\* checkLimit(c) at clock t, for the key of c: the store it leaves and its answer
checkLimit(st, key, t, maxRequests) ==
    LET entry == Entry(st, key)
        fresh == [count |-> 1, resetTime |-> t + WindowMs, firstRequest |-> t]
    IN  IF entry = {} \/ t >= Value(entry).resetTime
        THEN [store |-> Assign(st, key, fresh),
              result |-> [key |-> key, allowed |-> TRUE,
                          remaining |-> maxRequests - 1,
                          resetTime |-> fresh.resetTime]]
        ELSE LET count == Value(entry).count + 1
             IN  [store |-> Assign(st, key, [Value(entry) EXCEPT !.count = count]),
                  result |-> [key |-> key, allowed |-> count <= maxRequests,
                              remaining |-> IF maxRequests - count > 0
                                            THEN maxRequests - count ELSE 0,
                              resetTime |-> Value(entry).resetTime]]

\* cleanup(): the entries whose window ended before t are deleted
cleanup(st, t) ==
    LET kept == {key \in DOMAIN st : ~(st[key].resetTime < t)}
    IN  [key \in kept |-> st[key]]

\* the calls answered under the resetTime of the answer, this one included
Counted(ws, result) ==
    LET before == IF result.key \in DOMAIN ws /\ ws[result.key].resetTime = result.resetTime
                  THEN ws[result.key]
                  ELSE [NoWindow EXCEPT !.resetTime = result.resetTime]
    IN  Assign(ws, result.key,
               [before EXCEPT !.calls = @ + 1,
                              !.allowed = @ + (IF result.allowed THEN 1 ELSE 0)])

outsideLimiter == <<converterVars, discoverVars, managerVars, routeVars>>

\* the converter objects before any call
NoConverter ==
    /\ column = <<>>
    /\ definition = Undefined
    /\ strict = TRUE
    /\ pc = "idle"
    /\ schemas = NoBatch
    /\ response = NoResponse
    /\ modelRegistry = NoModels
    /\ models = NoModels
    /\ associations = <<>>
    /\ NoRequests

OutsideLimiter == NoConverter /\ NoDiscovery /\ NoManager

\* new RateLimiter(windowMs, maxRequests): limit holds maxRequests from then on
InitLimiter ==
    /\ store = <<>>
    /\ now = 0
    /\ limit \in {[maxRequests |-> m, result |-> {}] : m \in Limits}
    /\ windows = <<>>
    /\ OutsideLimiter

\* a request with the key `key` goes through the middleware
CheckLimit(key) ==
    /\ \A e \in Entry(store, key) : now < e.resetTime => e.count < MaxCount
    /\ LET call == checkLimit(store, key, now, limit.maxRequests)
       IN  /\ store' = call.store
           /\ limit' = [limit EXCEPT !.result = {call.result}]
           /\ windows' = Counted(windows, call.result)
    /\ UNCHANGED now
    /\ UNCHANGED outsideLimiter

\* the cleanup interval fires
Cleanup ==
    /\ store' = cleanup(store, now)
    /\ store' # store
    /\ UNCHANGED <<now, limit, windows>>
    /\ UNCHANGED outsideLimiter

\* time passes
TimePasses ==
    /\ now < MaxTime
    /\ now' = now + 1
    /\ UNCHANGED <<store, limit, windows>>
    /\ UNCHANGED outsideLimiter

NextLimiter == (\E key \in Keys : CheckLimit(key)) \/ Cleanup \/ TimePasses

SpecLimiter == InitLimiter /\ [][NextLimiter]_vars

\* C30: within one window of a key at most maxRequests calls are allowed and
\* every further call is refused, the remaining count is never negative, and
\* the first call at or after resetTime opens a window of count 1 and is allowed
C30_RateLimit ==
    [][\A key \in Keys : CheckLimit(key) =>
        LET result == Value(limit'.result)
            open == key \in DOMAIN windows /\ now < windows[key].resetTime
        IN  /\ result.remaining >= 0
            /\ windows'[key].allowed <= limit.maxRequests
            /\ open => /\ result.resetTime = windows[key].resetTime
                       /\ result.allowed <=> windows[key].calls < limit.maxRequests
            /\ ~open => /\ result.allowed
                        /\ store'[key].count = 1
                        /\ result.resetTime = now + WindowMs]_vars

\* a call was refused after maxRequests calls of its window were allowed
C30_Witness ==
    \E result \in limit.result :
        /\ ~result.allowed
        /\ windows[result.key].allowed = limit.maxRequests
        /\ windows[result.key].calls > limit.maxRequests

\* a later window of a key was opened by a call at or after resetTime
C30_WitnessNewWindow ==
    \E result \in limit.result :
        /\ result.allowed
        /\ result.resetTime > WindowMs
        /\ store[result.key].count = 1


\* C26: the Column Builder leaves the column object it is given unchanged,
\* its validate rules included, and leaves the model registry unchanged.
C26_BuilderPure ==
    [][(pc = "idle" /\ pc' = "buildColumnDefinition")
        => /\ column' = column
           /\ modelRegistry' = modelRegistry /\ models' = models]_vars

\* C26, the part the code keeps: a column without validate rules, or whose
\* type implies no rule, is left unchanged by the Column Builder, and the
\* registry is left unchanged for every column.
C26_BuilderPureWithoutImpliedRule ==
    [][(pc = "idle" /\ pc' = "buildColumnDefinition")
        => /\ (column.validate = Omitted \/ ~IsSemantic(column)) => column' = column
           /\ modelRegistry' = modelRegistry /\ models' = models]_vars

\* C26, the Relation Validator: validateRelations leaves the schema objects
\* of the batch and the model registry unchanged.
C26_ValidatorPure ==
    [][(pc = "idle" /\ pc' = "done" /\ response'.op = "validate")
        => /\ schemas' = schemas
           /\ modelRegistry' = modelRegistry /\ models' = models
           /\ associations' = associations]_vars


(***************************************************************************)
(* The Live-Schema Introspector, one column at a time: the loop body of    *)
(* generateModelsFromDatabase (src/utils/convert.ts).                      *)
(***************************************************************************)
\* String.prototype.includes
includes(s, sub) ==
    \E i \in 1..(Len(s) - Len(sub) + 1) : SubSeq(s, i, i + Len(sub) - 1) = sub

K_tinyint1 == K_tinyint \o <<"(", "1", ")">>

K_serial == <<"s","e","r","i","a","l">>

K_auto_increment == <<"a","u","t","o","_","i","n","c","r","e","m","e","n","t">>

K_nextval == <<"n","e","x","t","v","a","l">>

K_current_timestamp ==
    <<"c","u","r","r","e","n","t","_","t","i","m","e","s","t","a","m","p">>

ArrayOfString == Parameterised(DataType("ARRAY"), <<"STRING">>)

\* the if / else-if chain over the lower-cased native type, in source order,
\* and the fallback for a type no branch recognises
sqlTypeToDataType(sqlType) ==
    IF includes(sqlType, K_bigint) THEN DataType("BIGINT")
    ELSE IF includes(sqlType, K_smallint) THEN DataType("SMALLINT")
    ELSE IF includes(sqlType, K_int) THEN DataType("INTEGER")
    ELSE IF includes(sqlType, K_float) THEN DataType("FLOAT")
    ELSE IF includes(sqlType, K_double) THEN DataType("DOUBLE")
    ELSE IF includes(sqlType, K_decimal) \/ includes(sqlType, K_numeric)
         THEN DataType("DECIMAL")
    ELSE IF includes(sqlType, K_real) THEN DataType("REAL")
    ELSE IF includes(sqlType, K_char) THEN DataType("CHAR")
    ELSE IF includes(sqlType, K_varchar) THEN DataType("STRING")
    ELSE IF includes(sqlType, K_text) \/ includes(sqlType, K_mediumtext)
            \/ includes(sqlType, K_longtext)
         THEN DataType("TEXT")
    ELSE IF includes(sqlType, K_tinytext)
         THEN Parameterised(DataType("STRING"), <<255>>)
    ELSE IF includes(sqlType, K_timestamp) \/ includes(sqlType, K_datetime)
         THEN DataType("DATE")
    ELSE IF sqlType = K_date THEN DataType("DATEONLY")
    ELSE IF sqlType = K_time THEN DataType("TIME")
    ELSE IF includes(sqlType, K_bool) \/ sqlType = K_tinyint1
         THEN DataType("BOOLEAN")
    ELSE IF includes(sqlType, K_jsonb) THEN DataType("JSONB")
    ELSE IF includes(sqlType, K_json) THEN DataType("JSON")
    ELSE IF includes(sqlType, K_uuid) THEN DataType("UUID")
    ELSE IF includes(sqlType, K_enum) THEN DataType("STRING")
    ELSE IF includes(sqlType, K_array) THEN ArrayOfString
    ELSE IF includes(sqlType, K_geometry) THEN DataType("GEOMETRY")
    ELSE IF includes(sqlType, K_geography) THEN DataType("GEOGRAPHY")
    ELSE IF includes(sqlType, K_blob) \/ includes(sqlType, K_binary)
            \/ includes(sqlType, K_varbinary)
         THEN DataType("BLOB")
    ELSE DataType("STRING")

\* autoIncrement is read from the default value of an int or serial column
detectAutoIncrement(sqlType, defaultValue) ==
    /\ includes(sqlType, K_int) \/ includes(sqlType, K_serial)
    /\ \E v \in defaultValue :
           /\ v # <<>>
           /\ \/ includes(toLowerCase(v), K_auto_increment)
              \/ includes(toLowerCase(v), K_nextval)

\* a textual CURRENT_TIMESTAMP default becomes sequelize.literal(...)
rewriteDefault(defaultValue) ==
    IF \E v \in defaultValue : includes(toUpperCase(v), toUpperCase(K_current_timestamp))
    THEN Some([literal |-> TRUE, text |-> toUpperCase(K_current_timestamp)])
    ELSE {[literal |-> FALSE, text |-> v] : v \in defaultValue}

\* attributes[col] for one entry of describeTable
describedAttribute(def) ==
    LET sqlType == toLowerCase(def.type)
    IN  [type          |-> sqlTypeToDataType(sqlType),
         allowNull     |-> def.allowNull,
         primaryKey    |-> def.primaryKey,
         autoIncrement |-> detectAutoIncrement(sqlType, def.defaultValue),
         defaultValue  |-> rewriteDefault(def.defaultValue)]

\* native type names as the dialects report them, beside the bare family names
NativeDecorated ==
    {K_varchar \o <<"(", "2", "5", "5", ")">>,
     K_char \o <<"(", "2", ")">>,
     K_int \o <<"(", "1", "1", ")">>,
     K_tinyint1,
     K_decimal \o <<"(", "9", ",", "2", ")">>,
     K_double \o <<" ">> \o <<"p","r","e","c","i","s","i","o","n">>,
     K_timestamp \o <<" ">> \o <<"w","i","t","h">>,
     K_enum \o <<"(", "'", "a", "'", ")">>,
     K_serial, K_foo, <<"x","m","l">>, <<"m","o","n","e","y">>}

NativeFamilies ==
    {K_bigint, K_smallint, K_int, K_integer, K_float, K_double, K_decimal,
     K_numeric, K_real, K_char, K_varchar, K_text, K_mediumtext, K_longtext,
     K_tinytext, K_timestamp, K_datetime, K_date, K_time, K_bool, K_boolean,
     K_jsonb, K_json, K_uuid, K_enum, K_array, K_geometry, K_geography,
     K_blob, K_binary, K_varbinary}

NativeTypes ==
    LET lower == NativeFamilies \cup NativeDecorated
    IN  lower \cup {toUpperCase(s) : s \in lower}

DefaultValues ==
    {Omitted, Some(<<"0">>), Some(K_nextval \o <<"(", "s", ")">>),
     Some(toUpperCase(K_current_timestamp))}

Descriptions ==
    [type : NativeTypes, allowNull : BOOLEAN, primaryKey : BOOLEAN,
     defaultValue : DefaultValues]

outsideIntrospect == <<converterVars, limiterVars, managerVars, routeVars, live,
                       database, connection, log>>

InitIntrospect ==
    /\ described \in Descriptions
    /\ attribute = Omitted
    /\ live = <<>>
    /\ database = [isConnected |-> FALSE, models |-> <<>>]
    /\ connection = <<>>
    /\ log = <<>>
    /\ NoConverter
    /\ NoLimiter
    /\ NoManager

\* one turn of the column loop: the attribute of the described column
DescribeColumn ==
    /\ attribute = Omitted
    /\ attribute' = Some(describedAttribute(described))
    /\ UNCHANGED described
    /\ UNCHANGED outsideIntrospect

NextIntrospect == DescribeColumn

SpecIntrospect == InitIntrospect /\ [][NextIntrospect]_vars

\* the logical type the family of a native type name stands for: the family
\* names are looked for as in the source, and a name containing varchar, a
\* name containing tinytext and the name tinyint(1) belong to their own
\* families before char, text and int
FamilyType(sqlType) ==
    IF sqlType = K_tinyint1 THEN DataType("BOOLEAN")
    ELSE IF includes(sqlType, K_varchar) THEN DataType("STRING")
    ELSE IF includes(sqlType, K_tinytext)
         THEN Parameterised(DataType("STRING"), <<255>>)
    ELSE sqlTypeToDataType(sqlType)

\* the families of the listed names whose branch no earlier branch shadows
Unshadowed(sqlType) ==
    /\ sqlType # K_tinyint1
    /\ ~includes(sqlType, K_varchar)
    /\ ~includes(sqlType, K_tinytext)

\* C25: every native type of a listed family is given the logical type of
\* that family: a name containing varchar the variable-length string type,
\* tinytext its string type, bool and tinyint(1) boolean; only a name that
\* matches no family is given the fallback string type.
C25_IntrospectorTypes ==
    \A a \in attribute :
        a.type = FamilyType(toLowerCase(described.type))

\* C25 for the families no earlier branch shadows: the bare family names
\* get their own types, and a name of no family gets the string type
C25_UnshadowedFamilies ==
    \A a \in attribute :
        LET sqlType == toLowerCase(described.type)
        IN  /\ Unshadowed(sqlType) => a.type = FamilyType(sqlType)
            /\ sqlType = K_bigint => a.type = DataType("BIGINT")
            /\ sqlType = K_int => a.type = DataType("INTEGER")
            /\ sqlType = K_char => a.type = DataType("CHAR")
            /\ sqlType = K_text => a.type = DataType("TEXT")
            /\ sqlType = K_bool => a.type = DataType("BOOLEAN")
            /\ sqlType = K_date => a.type = DataType("DATEONLY")
            /\ sqlType = K_jsonb => a.type = DataType("JSONB")
            /\ sqlType = K_blob => a.type = DataType("BLOB")
            /\ sqlType \in {K_foo, <<"x","m","l">>} => a.type = DataType("STRING")


(***************************************************************************)
(* Schema discovery on connect: Database.connect / generateModels /        *)
(* disconnect (src/middlewares/database.ts) with generateModelsFromDatabase *)
(* and autoAssociateFromForeignKeys (src/utils/convert.ts).                *)
(*                                                                         *)
(* model.associations is keyed by the name Sequelize gives an association: *)
(* without an `as` option, belongsTo is stored under the singular and      *)
(* hasMany under the plural of the target model's name, and a second       *)
(* association under the same name replaces the first.  The models are     *)
(* defined under their table names (convert.ts:704), so the key is not     *)
(* always the table name; the association-name lookup of the query route   *)
(* (database.routes.ts:278-285) exists for that reason.                    *)
(***************************************************************************)
MaxForeignKeys == 2

\* a table named in the plural, a table named in the singular, and a table of
\* another schema that showAllTables does not list
Inflection ==
    ("users" :> [singular |-> "user", plural |-> "users"]) @@
    ("post" :> [singular |-> "post", plural |-> "posts"]) @@
    ("audit" :> [singular |-> "audit", plural |-> "audits"])

singularize(name) == Inflection[name].singular

pluralize(name) == Inflection[name].plural

ForeignKey(columnName, referencedTableName) ==
    [columnName |-> columnName, referencedTableName |-> referencedTableName,
     referencedColumnName |-> "id"]

Association(associationType, target, foreignKey, key) ==
    [associationType |-> associationType, target |-> target,
     foreignKey |-> foreignKey, key |-> key]

NoAssociations == [name \in {} |-> Association("", "", "", "")]

\* sequelize.define(tableName, attributes, ...): a model without associations
define(conn, tableName) == Assign(conn, tableName, [associations |-> NoAssociations])

\* sourceModel.belongsTo(targetModel, {foreignKey, targetKey})
belongsTo(conn, source, target, foreignKey, targetKey) ==
    [conn EXCEPT ![source].associations =
        Assign(@, singularize(target),
               Association("belongsTo", target, foreignKey, targetKey))]

\* targetModel.hasMany(sourceModel, {foreignKey, sourceKey})
hasMany(conn, source, target, foreignKey, sourceKey) ==
    [conn EXCEPT ![source].associations =
        Assign(@, pluralize(target),
               Association("hasMany", target, foreignKey, sourceKey))]

\* the table loop of generateModelsFromDatabase: a model sequelize already
\* holds under the table name is reused, any other table is defined
RECURSIVE discoverTables(_, _, _)
discoverTables(conn, registry, tables) ==
    IF tables = <<>> THEN [connection |-> conn, registry |-> registry]
    ELSE LET tableName == Head(tables)
         IN  IF tableName \in DOMAIN conn
             THEN discoverTables(conn, Assign(registry, tableName, tableName),
                                 Tail(tables))
             ELSE discoverTables(define(conn, tableName),
                                 Assign(registry, tableName, tableName),
                                 Tail(tables))

generateModelsFromDatabase(conn, db) == discoverTables(conn, <<>>, db.tables)

Called(source, associationType, target, foreignKey) ==
    [source |-> source, associationType |-> associationType,
     target |-> target, foreignKey |-> foreignKey]

\* the two guarded calls for one foreign key of tableName
associateForeignKey(st, registry, tableName, fk) ==
    IF tableName \notin DOMAIN registry \/ fk.referencedTableName \notin DOMAIN registry
    THEN st
    ELSE LET sourceModel == registry[tableName]
             targetModel == registry[fk.referencedTableName]
             one == IF fk.referencedTableName \notin DOMAIN st.connection[sourceModel].associations
                    THEN [connection |-> belongsTo(st.connection, sourceModel, targetModel,
                                                   fk.columnName, fk.referencedColumnName),
                          log |-> Append(st.log, Called(sourceModel, "belongsTo",
                                                        targetModel, fk.columnName))]
                    ELSE st
         IN  IF tableName \notin DOMAIN one.connection[targetModel].associations
             THEN [connection |-> hasMany(one.connection, targetModel, sourceModel,
                                          fk.columnName, fk.referencedColumnName),
                   log |-> Append(one.log, Called(targetModel, "hasMany",
                                                  sourceModel, fk.columnName))]
             ELSE one

RECURSIVE eachForeignKey(_, _, _, _)
eachForeignKey(st, registry, tableName, fks) ==
    IF fks = <<>> THEN st
    ELSE eachForeignKey(associateForeignKey(st, registry, tableName, Head(fks)),
                        registry, tableName, Tail(fks))

\* the table loop of autoAssociateFromForeignKeys: a table whose foreign keys
\* the dialect cannot report is passed over
RECURSIVE eachTable(_, _, _, _)
eachTable(st, registry, db, tables) ==
    IF tables = <<>> THEN st
    ELSE IF ~db.introspects
         THEN eachTable(st, registry, db, Tail(tables))
         ELSE eachTable(eachForeignKey(st, registry, Head(tables),
                                       db.foreignKeys[Head(tables)]),
                        registry, db, Tail(tables))

autoAssociateFromForeignKeys(conn, registry, db) ==
    eachTable([connection |-> conn, log |-> <<>>], registry, db, db.tables)

\* Database.generateModels: this.models is the discovered registry, then the
\* associations are attached
generateModels(conn, db) ==
    LET discovered == generateModelsFromDatabase(conn, db)
        associated == autoAssociateFromForeignKeys(discovered.connection,
                                                   discovered.registry, db)
    IN  [models |-> discovered.registry, connection |-> associated.connection,
         log |-> associated.log]

\* the foreign keys a table of the live database may carry
ForeignKeysOf ==
    ("post" :> {ForeignKey("user_id", "users"), ForeignKey("editor_id", "users"),
                ForeignKey("audit_id", "audit")}) @@
    ("users" :> {ForeignKey("post_id", "post"), ForeignKey("parent_id", "users")})

\* the lists without repetition of up to n members of S
RECURSIVE Lists(_, _)
Lists(S, n) ==
    IF n = 0 THEN {<<>>}
    ELSE {<<>>} \cup {<<x>> \o rest : x \in S, rest \in Lists(S, n - 1)}

Distinct(list) == \A i, j \in DOMAIN list : list[i] = list[j] => i = j

LiveDatabases ==
    {[tables |-> tables, foreignKeys |-> fks, introspects |-> i] :
        tables \in {<<"post", "users">>, <<"users", "post">>},
        fks \in {f \in [DOMAIN ForeignKeysOf -> Lists(UNION {ForeignKeysOf[t] : t \in DOMAIN ForeignKeysOf}, MaxForeignKeys)] :
                    \A t \in DOMAIN f :
                        Distinct(f[t]) /\ \A k \in DOMAIN f[t] : f[t][k] \in ForeignKeysOf[t]},
        i \in BOOLEAN}

outsideDiscover == <<converterVars, limiterVars, managerVars, routeVars,
                     described, attribute>>

InitDiscover ==
    /\ live \in LiveDatabases
    /\ database = [isConnected |-> FALSE, models |-> <<>>]
    /\ connection = <<>>
    /\ log = <<>>
    /\ described = <<>>
    /\ attribute = <<>>
    /\ NoConverter
    /\ NoLimiter
    /\ NoManager

\* Database.connect() resolves: authenticate, then generateModels.  The
\* manager connects a database that is new or waits in the retry set.
Connect ==
    /\ ~database.isConnected
    /\ LET generated == generateModels(connection, live)
       IN  /\ database' = [isConnected |-> TRUE, models |-> generated.models]
           /\ connection' = generated.connection
           /\ log' = generated.log
    /\ UNCHANGED live
    /\ UNCHANGED outsideDiscover

\* a direct call of Database.generateModels() (DatabaseManager.addDatabase)
GenerateModels ==
    /\ database.isConnected
    /\ LET generated == generateModels(connection, live)
       IN  /\ database' = [database EXCEPT !.models = generated.models]
           /\ connection' = generated.connection
           /\ log' = generated.log
    /\ UNCHANGED live
    /\ UNCHANGED outsideDiscover

\* Database.disconnect(): nothing when not connected, else the connection is
\* closed; isConnected is false afterwards whether or not close() failed
Disconnect ==
    /\ database.isConnected
    /\ database' = [database EXCEPT !.isConnected = FALSE]
    /\ UNCHANGED <<live, connection, log>>
    /\ UNCHANGED outsideDiscover

NextDiscover == Connect \/ GenerateModels \/ Disconnect

SpecDiscover == InitDiscover /\ [][NextDiscover]_vars


\* the step is a run of generateModels (Connect or GenerateModels)
Discovers == database'.isConnected

Listed == {live.tables[i] : i \in DOMAIN live.tables}

Has(conn, source, associationType, target, foreignKey) ==
    \E name \in DOMAIN conn[source].associations :
        LET a == conn[source].associations[name]
        IN  /\ a.associationType = associationType
            /\ a.target = target
            /\ a.foreignKey = foreignKey

\* C21: the registry of a connection holds the models of the live tables
\* once the database is connected, and holds no model after the database is
\* disconnected, until it is populated again.
C21_RegistryLifecycle ==
    /\ database.isConnected => DOMAIN database.models = Listed
    /\ ~database.isConnected => database.models = <<>>

\* C21, the part the code keeps: connect populates the registry with one
\* model per live table, and disconnect leaves the registry as it was
C21_PopulatedAtConnect ==
    /\ database.isConnected => DOMAIN database.models = Listed
    /\ database.models # <<>> => DOMAIN database.models = Listed

\* C21, the explicit reset: after clearRegistry the converter's registry
\* holds no model
C21_ClearRegistryEmpties ==
    [][(pc' = "idle" /\ pc # "idle") => modelRegistry' = NoModels]_vars

\* C22: a second run of discovery and autoAssociate against the unchanged
\* database returns a registry with the same table names, attaches no
\* association that already exists, and leaves every model with the
\* associations it had after the first run.
C22_DiscoveryIdempotent ==
    [][(Discovers /\ database.models # <<>>)
        => /\ DOMAIN database'.models = DOMAIN database.models
           /\ \A k \in DOMAIN log' :
                  ~Has(connection, log'[k].source, log'[k].associationType,
                       log'[k].target, log'[k].foreignKey)
           /\ connection' = connection]_vars

\* C22, the part the code keeps: the second run returns the same table names
\* and every model has the same associations after it as before it
C22_SameRegistryAndAssociations ==
    [][(Discovers /\ database.models # <<>>)
        => /\ DOMAIN database'.models = DOMAIN database.models
           /\ connection' = connection]_vars

\* the foreign keys the dialect reports whose two tables have models
Covered ==
    {<<S, k>> \in Listed \X (1..MaxForeignKeys) :
        /\ live.introspects
        /\ k \in DOMAIN live.foreignKeys[S]
        /\ S \in DOMAIN database.models
        /\ live.foreignKeys[S][k].referencedTableName \in DOMAIN database.models}

\* C23: after autoAssociate, for every foreign key from S to T whose two
\* tables have models, S has a belongsTo association to T and T has a
\* hasMany association to S for that key, unless an association under that
\* name exists; a foreign key whose source or target has no model attaches
\* nothing.
C23_EveryForeignKeyCovered ==
    /\ \A p \in Covered :
           LET S == p[1]
               fk == live.foreignKeys[S][p[2]]
               T == fk.referencedTableName
           IN  /\ \/ Has(connection, S, "belongsTo", T, fk.columnName)
                  \/ T \in DOMAIN connection[S].associations
               /\ \/ Has(connection, T, "hasMany", S, fk.columnName)
                  \/ S \in DOMAIN connection[T].associations
    /\ \A S \in DOMAIN connection : \A name \in DOMAIN connection[S].associations :
           connection[S].associations[name].target \in DOMAIN database.models

\* C23, the part the code keeps: every covered pair of tables is associated
\* in both directions by one of its foreign keys, and a foreign key whose
\* source or target has no model attaches nothing
C23_EveryPairCovered ==
    /\ \A p \in Covered :
           LET S == p[1]
               T == live.foreignKeys[S][p[2]].referencedTableName
           IN  /\ \/ \E a \in {connection[S].associations[n] : n \in DOMAIN connection[S].associations} :
                         a.associationType = "belongsTo" /\ a.target = T
                  \/ T \in DOMAIN connection[S].associations
               /\ \/ \E a \in {connection[T].associations[n] : n \in DOMAIN connection[T].associations} :
                         a.associationType = "hasMany" /\ a.target = S
                  \/ S \in DOMAIN connection[T].associations
    /\ \A S \in DOMAIN connection : \A name \in DOMAIN connection[S].associations :
           connection[S].associations[name].target \in DOMAIN database.models


(***************************************************************************)
(* The DatabaseManager (src/middlewares/database.ts).  Its methods are     *)
(* async: a call runs until its next await, and the calls suspended at an  *)
(* await resume one at a time, in any order.                               *)
(***************************************************************************)
MaxCalls == 3

MaxInFlight == 2

\* the retry passes the timer has running at a time
MaxPasses == 1

Names == {"x", "y"}

\* the tables generateModels finds on every server
Tables == {"t"}

\* new Database(config): the config of name points at the server of name;
\* completed records that a connect() of the object has resolved
NewDatabase(name) ==
    [config |-> name, isConnected |-> FALSE, models |-> {}, completed |-> FALSE]

\* Map operations on retryDatabases, a list of entries in insertion order
RetryNames(retry) == {retry[i].name : i \in DOMAIN retry}

RetrySet(retry, name, db) ==
    IF name \in RetryNames(retry)
    THEN [i \in DOMAIN retry |->
             IF retry[i].name = name THEN [name |-> name, db |-> db] ELSE retry[i]]
    ELSE Append(retry, [name |-> name, db |-> db])

RetryDelete(retry, name) ==
    LET Other(e) == e.name # name
    IN  SelectSeq(retry, Other)

MapDelete(map, key) == [k \in DOMAIN map \ {key} |-> map[k]]

\* a suspended call: the method, the name and Database it works on, the await
\* it waits at, the retry entries its iterator has passed, and the databases
\* disconnectAll is closing
Call(op, name, db, at, visited, closing) ==
    [op |-> op, name |-> name, db |-> db, at |-> at, visited |-> visited,
     closing |-> closing]

Manager ==
    [databases |-> databases, retryDatabases |-> retryDatabases,
     objects |-> objects, configs |-> configs, removed |-> removed]

Ends(m) == [m |-> m, call |-> Omitted]

Awaits(m, call) == [m |-> m, call |-> Some(call)]

FreeId(objs) ==
    Min({i \in 1..(Cardinality(DOMAIN objs) + 1) : i \notin DOMAIN objs})

\* the for-of loop of retryFailedDatabases moves to the next entry of the
\* Map and calls its connect(), or returns when no entry is left
nextEntry(m, call) ==
    LET Ahead(e) == e.name \notin call.visited
        rest == SelectSeq(m.retryDatabases, Ahead)
    IN  IF rest = <<>> THEN Ends(m)
        ELSE Awaits(m, [call EXCEPT !.name = Head(rest).name,
                                    !.db = Head(rest).db,
                                    !.at = "authenticate",
                                    !.visited = @ \cup {Head(rest).name}])

retryResolved_KeepsEntry(m, call) ==
    nextEntry([m EXCEPT !.databases = Assign(@, call.name, call.db)], call)

\* retryFailedDatabases after db.connect() resolved
retryResolved(m, call) ==
    nextEntry([m EXCEPT !.databases = Assign(@, call.name, call.db),
                        !.retryDatabases = RetryDelete(@, call.name)], call)

\* what the caller of database.connect() does once connect has resolved
connectResolved(m, call) ==
    IF call.op = "addDatabase"
    THEN IF call.name \in RetryNames(m.retryDatabases)
         THEN Awaits(m, [call EXCEPT !.at = "refresh"])
         ELSE Ends([m EXCEPT !.databases = Assign(@, call.name, call.db)])
    ELSE IF call.op = "setDatabases"
    THEN Ends(m)
    ELSE retryResolved(m, call)

\* what the caller of database.connect() does once connect has thrown
connectRejected(m, call) ==
    IF call.op \in {"addDatabase", "setDatabases"}
    THEN Ends([m EXCEPT !.retryDatabases = RetrySet(@, call.name, call.db)])
    ELSE nextEntry(m, call)

\* Database.connect: await this.connection.authenticate()
authenticate(m, call, ok) ==
    IF ok
    THEN Awaits([m EXCEPT !.objects[call.db].isConnected = TRUE],
                [call EXCEPT !.at = "generateModels"])
    ELSE connectRejected([m EXCEPT !.objects[call.db].isConnected = FALSE], call)

\* Database.connect: await this.generateModels(); when it throws, this.models
\* has been assigned or not
connectGenerateModels(m, call, ok, assigned) ==
    IF ok
    THEN connectResolved([m EXCEPT !.objects[call.db].models = Tables,
                                   !.objects[call.db].completed = TRUE], call)
    ELSE connectRejected(
             [m EXCEPT !.objects[call.db].isConnected = FALSE,
                       !.objects[call.db].models = IF assigned THEN Tables ELSE @],
             call)

\* addDatabase: await database.generateModels() for a name in the retry set
refreshModels(m, call, ok, assigned) ==
    IF ok
    THEN Ends([m EXCEPT !.objects[call.db].models = Tables,
                        !.retryDatabases = RetryDelete(@, call.name),
                        !.databases = Assign(@, call.name, call.db)])
    ELSE Ends([m EXCEPT !.objects[call.db].models = IF assigned THEN Tables ELSE @,
                        !.retryDatabases = RetrySet(@, call.name, call.db)])

\* the call that awaited existingDb.disconnect() or database.disconnect()
disconnected(m, call, ok) ==
    LET closed == IF call.at = "close"
                  THEN [m EXCEPT !.objects[call.db].isConnected = FALSE]
                  ELSE m
        id == FreeId(closed.objects)
    IN  IF ~ok THEN Ends(closed)
        ELSE IF call.op = "removeDatabase"
        THEN Ends([closed EXCEPT !.databases = MapDelete(@, call.name),
                                 !.configs = @ \ {call.name},
                                 !.removed = @ \cup {call.name}])
        ELSE Awaits([closed EXCEPT !.databases = Assign(MapDelete(@, call.name), call.name, id),
                                   !.objects = Assign(@, id, NewDatabase(call.name))],
                    [call EXCEPT !.db = id, !.at = "authenticate"])

\* disconnectAll after Promise.allSettled
settled(m, call) ==
    Ends([m EXCEPT !.objects = [id \in DOMAIN @ |->
                                   IF id \in call.closing
                                   THEN [@[id] EXCEPT !.isConnected = FALSE]
                                   ELSE @[id]],
                   !.databases = <<>>])

\* the await a disconnect() of the object stops at: close() when connected
disconnectAt(m, id) == IF m.objects[id].isConnected THEN "close" ELSE "resume"

\* the objects some Map or some suspended call still refers to
Referenced(m, cs) ==
    {m.databases[n] : n \in DOMAIN m.databases}
    \cup {m.retryDatabases[i].db : i \in DOMAIN m.retryDatabases}
    \cup {cs[k].db : k \in DOMAIN cs}
    \cup UNION {cs[k].closing : k \in DOMAIN cs}

\* an iterator forgets the entries that were deleted: set again, they are new
Iterating(m, cs) ==
    [k \in DOMAIN cs |->
        [cs[k] EXCEPT !.visited = @ \cap RetryNames(m.retryDatabases)]]

Remaining(cs, k) == SubSeq(cs, 1, k - 1) \o SubSeq(cs, k + 1, Len(cs))

\* the state the step r leaves, cs being the suspended calls after it
Leaves(r, cs) ==
    /\ databases' = r.m.databases
    /\ retryDatabases' = r.m.retryDatabases
    /\ objects' = [id \in DOMAIN r.m.objects \cap Referenced(r.m, cs) |-> r.m.objects[id]]
    /\ configs' = r.m.configs
    /\ removed' = r.m.removed
    /\ calls' = Iterating(r.m, cs)

\* a new call ran to its first await (or to its end)
Begins(r) ==
    /\ Leaves(r, calls \o (IF r.call = Omitted THEN <<>> ELSE <<Value(r.call)>>))
    /\ UNCHANGED <<retryTimer, timers, up>>

\* the suspended call k ran to its next await (or to its end); a call of
\* addDatabase or setDatabases is work on its name after any removal
Resumes(k, r) ==
    /\ Leaves([r EXCEPT !.m.removed = IF calls[k].op \in {"addDatabase", "setDatabases"}
                                     THEN @ \ {calls[k].name} ELSE @],
              IF r.call = Omitted THEN Remaining(calls, k)
              ELSE [calls EXCEPT ![k] = Value(r.call)])
    /\ UNCHANGED <<retryTimer, timers, up, started>>

outsideManager == <<converterVars, limiterVars, discoverVars, routeVars>>

OutsideManager == NoConverter /\ NoLimiter /\ NoDiscovery

InitManager ==
    /\ databases = <<>>
    /\ retryDatabases = <<>>
    /\ objects = <<>>
    /\ retryTimer = FALSE
    /\ timers = 0
    /\ configs = {}
    /\ calls = <<>>
    /\ up \in [Names -> BOOLEAN]
    /\ started = 0
    /\ removed = {}
    /\ OutsideManager

MayCall == started < MaxCalls /\ Len(calls) < MaxInFlight

\* startAutoRetry(): nothing when the timer is set, else setInterval
StartAutoRetry ==
    /\ IF retryTimer
       THEN UNCHANGED <<retryTimer, timers>>
       ELSE retryTimer' = TRUE /\ timers' = timers + 1
    /\ UNCHANGED <<databases, retryDatabases, objects, configs, calls, up,
                   started, removed>>
    /\ UNCHANGED outsideManager

\* stopAutoRetry(): clearInterval when the timer is set
StopAutoRetry ==
    /\ IF retryTimer
       THEN retryTimer' = FALSE /\ timers' = timers - 1
       ELSE UNCHANGED <<retryTimer, timers>>
    /\ UNCHANGED <<databases, retryDatabases, objects, configs, calls, up,
                   started, removed>>
    /\ UNCHANGED outsideManager

\* the interval callback: a retry pass when the retry set is not empty
AutoRetry ==
    /\ timers > 0
    /\ retryDatabases # <<>>
    /\ Len(calls) < MaxInFlight
    /\ Cardinality({k \in DOMAIN calls : calls[k].op = "retryFailedDatabases"}) < MaxPasses
    /\ Begins(nextEntry(Manager, Call("retryFailedDatabases", "", 0, "", {}, {})))
    /\ UNCHANGED started
    /\ UNCHANGED outsideManager

\* a direct call of retryFailedDatabases()
RetryFailedDatabases ==
    /\ MayCall
    /\ started' = started + 1
    /\ Begins(nextEntry(Manager, Call("retryFailedDatabases", "", 0, "", {}, {})))
    /\ UNCHANGED outsideManager

\* addDatabase(name, config) up to await database.connect()
AddDatabase(name) ==
    /\ MayCall
    /\ started' = started + 1
    /\ LET id == FreeId(objects)
       IN  Begins(Awaits([Manager EXCEPT !.objects = Assign(@, id, NewDatabase(name)),
                                         !.configs = @ \cup {name},
                                         !.removed = @ \ {name}],
                         Call("addDatabase", name, id, "authenticate", {}, {})))
    /\ UNCHANGED outsideManager

\* setDatabases(name, config) up to its first await: the disconnect of the
\* existing database, or the connect of the new one, already in the map
SetDatabases(name) ==
    /\ MayCall
    /\ started' = started + 1
    /\ LET m == [Manager EXCEPT !.removed = @ \ {name}]
           id == FreeId(objects)
       IN  IF name \in DOMAIN databases
           THEN Begins(Awaits(m, Call("setDatabases", name, databases[name],
                                      disconnectAt(m, databases[name]), {}, {})))
           ELSE Begins(Awaits([m EXCEPT !.objects = Assign(@, id, NewDatabase(name)),
                                        !.databases = Assign(@, name, id)],
                              Call("setDatabases", name, id, "authenticate", {}, {})))
    /\ UNCHANGED outsideManager

\* removeDatabase(name) up to await database.disconnect(); it returns at once
\* when the connected map has no such name
RemoveDatabase(name) ==
    /\ MayCall
    /\ started' = started + 1
    /\ IF name \in DOMAIN databases
       THEN Begins(Awaits(Manager, Call("removeDatabase", name, databases[name],
                                        disconnectAt(Manager, databases[name]), {}, {})))
       ELSE Begins(Ends([Manager EXCEPT !.removed = @ \cup {name}]))
    /\ UNCHANGED outsideManager

\* disconnectAll() up to await Promise.allSettled
DisconnectAll ==
    /\ MayCall
    /\ started' = started + 1
    /\ LET closing == {databases[n] : n \in {n \in DOMAIN databases :
                                                 objects[databases[n]].isConnected}}
       IN  Begins(Awaits(Manager, Call("disconnectAll", "", 0, "settle", {}, closing)))
    /\ UNCHANGED outsideManager

\* authenticate() of the Database of call k resolves or rejects
Authenticated(k) ==
    /\ k \in DOMAIN calls
    /\ calls[k].at = "authenticate"
    /\ Resumes(k, authenticate(Manager, calls[k], up[objects[calls[k].db].config]))
    /\ UNCHANGED outsideManager

\* generateModels() inside the connect() of call k resolves or rejects
ModelsGenerated(k) ==
    /\ k \in DOMAIN calls
    /\ calls[k].at = "generateModels"
    /\ \E assigned \in BOOLEAN :
           Resumes(k, connectGenerateModels(Manager, calls[k],
                                            up[objects[calls[k].db].config], assigned))
    /\ UNCHANGED outsideManager

\* the generateModels() addDatabase awaits resolves or rejects
ModelsRefreshed(k) ==
    /\ k \in DOMAIN calls
    /\ calls[k].at = "refresh"
    /\ \E assigned \in BOOLEAN :
           Resumes(k, refreshModels(Manager, calls[k],
                                    up[objects[calls[k].db].config], assigned))
    /\ UNCHANGED outsideManager

\* the disconnect() call k awaits returns, or throws what close() threw
Disconnected(k) ==
    /\ k \in DOMAIN calls
    /\ calls[k].at \in {"close", "resume"}
    /\ \E ok \in BOOLEAN :
           /\ calls[k].at = "resume" => ok
           /\ Resumes(k, disconnected(Manager, calls[k], ok))
    /\ UNCHANGED outsideManager

\* every disconnect() of disconnectAll has settled
Settled(k) ==
    /\ k \in DOMAIN calls
    /\ calls[k].at = "settle"
    /\ Resumes(k, settled(Manager, calls[k]))
    /\ UNCHANGED outsideManager

\* a database server goes down or comes back
Flip(name) ==
    /\ up' = [up EXCEPT ![name] = ~@]
    /\ UNCHANGED <<databases, retryDatabases, objects, retryTimer, timers,
                   configs, calls, started, removed>>
    /\ UNCHANGED outsideManager

NextManager ==
    \/ StartAutoRetry
    \/ StopAutoRetry
    \/ AutoRetry
    \/ RetryFailedDatabases
    \/ \E name \in Names : AddDatabase(name)
    \/ \E name \in Names : SetDatabases(name)
    \/ \E name \in Names : RemoveDatabase(name)
    \/ DisconnectAll
    \/ \E k \in 1..MaxInFlight : Authenticated(k)
    \/ \E k \in 1..MaxInFlight : ModelsGenerated(k)
    \/ \E k \in 1..MaxInFlight : ModelsRefreshed(k)
    \/ \E k \in 1..MaxInFlight : Disconnected(k)
    \/ \E k \in 1..MaxInFlight : Settled(k)
    \/ \E name \in Names : Flip(name)

SpecManager == InitManager /\ [][NextManager]_vars


\* getDatabaseNames()
getDatabaseNames == DOMAIN databases

Quiescent == calls = <<>>

\* C28: once the calls made so far have all finished, succeeded or failed, no
\* name is both in the connected map and in the retry set, and every name
\* getDatabaseNames returns has a Database whose connect() has resolved.
C28_ConnectedMapInvariant ==
    Quiescent =>
        /\ getDatabaseNames \cap RetryNames(retryDatabases) = {}
        /\ \A name \in getDatabaseNames : objects[databases[name]].completed

\* C28, the part the code keeps: once the calls have finished, a name of the
\* connected map that is not in the retry set has a Database whose connect()
\* has resolved
C28_ConnectedUnlessRetrying ==
    Quiescent =>
        \A name \in getDatabaseNames \ RetryNames(retryDatabases) :
            objects[databases[name]].completed

\* C29: a name removeDatabase has removed is absent from the connected map
\* until addDatabase or setDatabases is called for it again, whatever retry
\* passes run in between.
C29_RemovalIsFinal ==
    \A name \in removed : name \notin getDatabaseNames

\* C29, the part the code keeps: when removeDatabase returns, the name is
\* absent from the connected map
C29_AbsentWhenRemoved ==
    [][\A name \in removed' \ removed : name \notin DOMAIN databases']_vars

(***************************************************************************)
(* The automatic retry on its own: the manager after start-up, with the    *)
(* databases whose first connect failed waiting in the retry set.          *)
(***************************************************************************)
\* the orders in which the names of S were put into a Map
RECURSIVE Orders(_)
Orders(S) ==
    IF S = {} THEN {<<>>}
    ELSE UNION {{<<n>> \o rest : rest \in Orders(S \ {n})} : n \in S}

Position(order, name) == CHOOSE i \in DOMAIN order : order[i] = name

\* the Databases of `order` failed to connect: setDatabases left those of
\* `set` in the connected map as well, addDatabase left the others out of it
InitRetry ==
    /\ \E failed \in SUBSET Names : \E order \in Orders(failed) : \E set \in SUBSET failed :
           /\ failed # {}
           /\ objects = [id \in DOMAIN order |-> NewDatabase(order[id])]
           /\ retryDatabases = [i \in DOMAIN order |-> [name |-> order[i], db |-> i]]
           /\ databases = [name \in set |-> Position(order, name)]
           /\ configs = failed
    /\ retryTimer = FALSE
    /\ timers = 0
    /\ calls = <<>>
    /\ up \in [Names -> BOOLEAN]
    /\ started = 0
    /\ removed = {}
    /\ OutsideManager

NextRetry ==
    \/ StartAutoRetry
    \/ AutoRetry
    \/ \E k \in 1..MaxInFlight : Authenticated(k)
    \/ \E k \in 1..MaxInFlight : ModelsGenerated(k)
    \/ \E name \in Names : Flip(name)

\* the interval timer keeps firing, and an authenticate() or generateModels()
\* that was started settles
FairRetry ==
    /\ WF_vars(AutoRetry)
    /\ \A k \in 1..MaxInFlight :
           WF_vars(Authenticated(k)) /\ WF_vars(ModelsGenerated(k))

LiveRetry == InitRetry /\ [][NextRetry]_vars /\ FairRetry

InRetrySet(name) == name \in RetryNames(retryDatabases)

\* the connect() of the retry pass k is rejected in this step
RetryRejected(k) ==
    /\ k \in DOMAIN calls
    /\ calls[k].op = "retryFailedDatabases"
    /\ ~up[objects[calls[k].db].config]
    /\ Authenticated(k) \/ ModelsGenerated(k)

\* C27: there is never a second timer; with the timer running, a database
\* of the retry set whose server ends up accepting connections is in the end
\* in the connected map and out of the retry set; and a retry attempt that
\* fails leaves the database in the retry set and the connected map as it is.
C27_AutomaticRetry ==
    /\ [](timers <= 1)
    /\ \A name \in Names :
           <>[]up[name] =>
               ((retryTimer /\ InRetrySet(name))
                    ~> (name \in DOMAIN databases /\ ~InRetrySet(name)))
    /\ [][\A k \in 1..MaxInFlight :
              RetryRejected(k) =>
                  /\ InRetrySet(calls[k].name)
                         => calls[k].name \in RetryNames(retryDatabases')
                  /\ databases' = databases]_vars

\* with the timer running, a retry pass reconnected a database and moved it
\* to the connected map
C27_Witness ==
    /\ retryTimer /\ timers = 1
    /\ \E name \in DOMAIN databases :
           /\ ~InRetrySet(name)
           /\ objects[databases[name]].completed
           /\ objects[databases[name]].isConnected


(***************************************************************************)
(* Concurrent create-with-relations calls on one connection.  The handler  *)
(* (nginx.conf:225-282) awaits twice: the request body (c.req.json) and    *)
(* sequelize.sync.  What lies between the two runs in one turn of the      *)
(* event loop: the validation, the new SchemaConverter and its             *)
(* establishRelations.  Every call has its own converter and registry;     *)
(* sequelize.models and the attached associations belong to the            *)
(* connection, which the calls share.                                      *)
(***************************************************************************)
MaxConcurrent == 2

Callers == 1..MaxConcurrent

PlainA == Schema("a", <<IdColumn>>, <<>>)

PlainB == Schema("b", <<IdColumn>>, <<>>)

OwnedB ==
    Schema("b", <<IdColumn, Col("a_id", K_integer)>>,
           <<Relation("belongsTo", "a", Some("a_id"), Some("id"), Omitted)>>)

OwningA ==
    Schema("a", <<IdColumn>>,
           <<Relation("hasMany", "b", Some("a_id"), Omitted, Omitted)>>)

UnsupportedB == Schema("b", <<IdColumn, Col("k", K_foo)>>, <<>>)

UnknownA ==
    Schema("a", <<IdColumn>>,
           <<Relation("hasMany", "b", Some("a_id"), Omitted, Omitted),
             Relation("manyToMany", "b", Omitted, Omitted, Omitted)>>)

KeylessA == Schema("a", <<Col("id", K_integer)>>, <<>>)

\* request bodies whose table names overlap
ConcurrentBatches ==
    {<<PlainA>>, <<PlainA, OwnedB>>, <<OwnedB, PlainA>>, <<OwningA, PlainB>>,
     <<PlainA, UnsupportedB>>, <<UnknownA, PlainB>>, <<KeylessA>>, <<OwnedB>>}

\* a call suspended at `await c.req.json()`
Request(batch) ==
    [pc |-> "json", schemas |-> batch, modelRegistry |-> NoModels,
     response |-> NoResponse]

\* sequelize.define makes a new model class at every call (convert.ts:287):
\* the models call k defined, and the associations it attached to them, are
\* told from those of any other call
Stamped(k, attachedBefore, est) ==
    LET own(m) == Model(m.tableName, <<k, m.definedBy>>)
    IN  [est EXCEPT
            !.registry = [n \in DOMAIN est.registry |-> own(est.registry[n])],
            !.models = [n \in DOMAIN est.models |->
                            IF n \in DOMAIN est.registry
                            THEN own(est.models[n]) ELSE est.models[n]],
            !.associations =
                [i \in DOMAIN est.associations |->
                    IF i > Len(attachedBefore)
                    THEN [est.associations[i] EXCEPT !.source = own(@),
                                                     !.target = own(@)]
                    ELSE est.associations[i]]]

outsideRoute == <<column, definition, strict, pc, schemas, response, modelRegistry,
                  limiterVars, discoverVars, managerVars>>

InitConcurrent ==
    /\ requests \in [Callers -> {Request(batch) : batch \in ConcurrentBatches}]
    /\ registrations = <<>>
    /\ column = <<>>
    /\ definition = Undefined
    /\ strict = TRUE
    /\ pc = "idle"
    /\ schemas = NoBatch
    /\ response = NoResponse
    /\ modelRegistry = NoModels
    /\ models = NoModels
    /\ associations = <<>>
    /\ NoLimiter
    /\ NoDiscovery
    /\ NoManager

\* the body of call k has arrived: the handler runs up to `await
\* sequelize.sync`, or to the response it returns before
CreateWithRelations(k) ==
    /\ requests[k].pc = "json"
    /\ LET batch == requests[k].schemas
           invalid == firstInvalidSchema(batch, TRUE)
           validation == validateRelations(batch)
           est == Stamped(k, associations,
                          establishRelations(
                              Progress(NoModels, models, associations), batch, TRUE))
       IN  IF invalid # Omitted
           THEN /\ requests' = [requests EXCEPT
                        ![k].pc = "done",
                        ![k].response = Answer("create-with-relations", 400, FALSE,
                                               "Schema validation failed", <<>>)]
                /\ UNCHANGED <<models, associations, registrations>>
           ELSE IF ~validation.valid
           THEN /\ requests' = [requests EXCEPT
                        ![k].pc = "done",
                        ![k].response = Answer("create-with-relations", 400, FALSE,
                                               "Relations validation failed",
                                               validation.errors)]
                /\ UNCHANGED <<models, associations, registrations>>
           ELSE /\ requests' = [requests EXCEPT
                        ![k].pc = IF est.threw THEN "done" ELSE "sync",
                        ![k].modelRegistry = est.registry,
                        ![k].response =
                            IF est.threw
                            THEN Answer("create-with-relations",
                                        statusOfError(est.error), TRUE, est.error, <<>>)
                            ELSE NoResponse]
                /\ models' = est.models
                /\ associations' = est.associations
                /\ registrations' = Append(registrations, k)
    /\ UNCHANGED outsideRoute

\* sequelize.sync of call k settles; syncOk is whether the database accepts it
SyncSettled(k, syncOk) ==
    /\ requests[k].pc = "sync"
    /\ requests' = [requests EXCEPT
            ![k].pc = "done",
            ![k].response =
                IF syncOk
                THEN Answer("create-with-relations", 201, FALSE, "", <<>>)
                ELSE Answer("create-with-relations", 500, TRUE, "sync failed", <<>>)]
    /\ UNCHANGED <<models, associations, registrations>>
    /\ UNCHANGED outsideRoute

NextConcurrent ==
    \/ \E k \in Callers : CreateWithRelations(k)
    \/ \E k \in Callers, syncOk \in BOOLEAN : SyncSettled(k, syncOk)

SpecConcurrent == InitConcurrent /\ [][NextConcurrent]_vars

\* the call that defined a model
Caller(model) == model.definedBy[1]

Finished == \A k \in Callers : requests[k].pc = "done"

\* call k defined at least one model on the connection
Registered(k) == requests[k].modelRegistry # NoModels

\* establishRelations of call k returned
RanThrough(k) ==
    requests[k].response.status = 201 \/ requests[k].response.error = "sync failed"

\* call j ran its establishRelations before call k ran its own
Earlier(j, k) ==
    \E m, n \in DOMAIN registrations :
        m < n /\ registrations[m] = j /\ registrations[n] = k

Overlap(j, k) == TableNames(requests[j].schemas) \cap TableNames(requests[k].schemas)

\* the associations of one call lie next to each other, between models of
\* that call
Uninterleaved ==
    /\ \A i \in DOMAIN associations :
           Caller(associations[i].source) = Caller(associations[i].target)
    /\ \A i, m, n \in DOMAIN associations :
           (i < m /\ m < n /\ Caller(associations[i].source) =
                              Caller(associations[n].source)) =>
               Caller(associations[m].source) = Caller(associations[i].source)
    /\ \A k \in Callers : \A n \in DOMAIN requests[k].modelRegistry :
           Caller(requests[k].modelRegistry[n]) = k

\* C24 as stated: the model definition and relation attachment of a call
\* run without interleaving with the other call, and once both calls have
\* finished, every table name the two have in common is mapped by the
\* connection's registry to the model of the call that registered last,
\* never to a model of the earlier call.
C24_LastWriterWins ==
    /\ Uninterleaved
    /\ Finished =>
           \A j, k \in Callers :
               (Registered(j) /\ Registered(k) /\ Earlier(j, k)) =>
                   \A n \in Overlap(j, k) \cap DOMAIN models :
                       Caller(models[n]) # j

\* C24, the part that holds: the calls never interleave, and of two calls
\* whose establishRelations returned, the later one owns every name the two
\* have in common.
C24_LastEstablishedWins ==
    /\ Uninterleaved
    /\ \A j, k \in Callers :
           (RanThrough(j) /\ RanThrough(k) /\ Earlier(j, k)) =>
               \A n \in Overlap(j, k) :
                   n \in DOMAIN models /\ Caller(models[n]) # j

\* two calls whose establishRelations returned have finished, with a table
\* name in common
C24_Witness ==
    /\ Finished
    /\ \E j, k \in Callers :
           /\ RanThrough(j) /\ RanThrough(k) /\ Earlier(j, k)
           /\ Overlap(j, k) # {}
           /\ \E i \in DOMAIN associations : Caller(associations[i].source) = j
           /\ \E i \in DOMAIN associations : Caller(associations[i].source) = k

====
